---- MODULE Spec2Model ----
(***************************************************************************)
(* Adaptive learning-path pipeline of the personalized tutor backend:      *)
(* learner intake (AgentOrchestrator.process_new_learner), the detached    *)
(* background materialization thread, resource quizzes and quiz            *)
(* submissions with path advancement (app.py), and the quiz synthesizer    *)
(* (ContentGeneratorAgent.generate_quiz_questions).                        *)
(*                                                                         *)
(* The document store is the shared state; every database call is one      *)
(* atomic step, and local computation is folded into an adjacent database  *)
(* call.  uuid4 identifiers are modelled as fresh integers.  Generated     *)
(* text is modelled by where it comes from, not by its characters.         *)
(***************************************************************************)
EXTENDS Integers, Sequences, FiniteSets, TLC

\* ---------------------------------------------------------------- bounds
\* number of intake requests (learner ids are 1..MaxIntakes)
MaxIntakes == 2
\* number of resource quizzes created
MaxQuizzes == 1
\* number of quiz submissions handled at the same time
MaxSubmitters == 2
\* number of quiz submissions stored
MaxSubmissions == 6
\* longest JSON array a gateway response carries
MaxItems == 2
\* most per-question results handed to generate_overall_feedback
MaxResults == 5
\* number of invocations of the fallback content generator
MaxFallbackCalls == 2
\* largest num_resources handed to generate_learning_sequence
MaxResources == 5
\* longest response of the gateway to the planner, in tokens
MaxTokens == 8
\* number of pretests conducted
MaxPretests == 1
\* largest count asked of the quiz synthesizer
MaxCount == 6

\* ------------------------------------------------------ program constants
\* topics[:5] in _create_initial_path
SkeletonSize == 5
\* initial_path_resources[:3] in process_new_learner
InitialReturned == 3
\* min(5, ...) cap of difficulty_level
MaxDifficulty == 5
\* default knowledge_level
DefaultKnowledgeLevel == 1
\* count=3 in get_resource_quiz
ResourceQuizCount == 3
\* average_score >= 60 in submit_quiz
PassScore == 60

Learners == 1..MaxIntakes

Min(a, b) == IF a < b THEN a ELSE b

\* ----------------------------------------------------------------- strings
\* The characters of the strings that the program lower-cases, splits or
\* searches.
Chars(s) ==
  CASE s = "Variables and Expressions" -> <<"V", "a", "r", "i", "a", "b", "l", "e", "s", " ", "a", "n", "d", " ", "E", "x", "p", "r", "e", "s", "s", "i", "o", "n", "s">>
    [] s = "Linear Equations" -> <<"L", "i", "n", "e", "a", "r", " ", "E", "q", "u", "a", "t", "i", "o", "n", "s">>
    [] s = "Systems of Equations" -> <<"S", "y", "s", "t", "e", "m", "s", " ", "o", "f", " ", "E", "q", "u", "a", "t", "i", "o", "n", "s">>
    [] s = "Quadratic Functions" -> <<"Q", "u", "a", "d", "r", "a", "t", "i", "c", " ", "F", "u", "n", "c", "t", "i", "o", "n", "s">>
    [] s = "Polynomial Operations" -> <<"P", "o", "l", "y", "n", "o", "m", "i", "a", "l", " ", "O", "p", "e", "r", "a", "t", "i", "o", "n", "s">>
    [] s = "Basic Shapes and Properties" -> <<"B", "a", "s", "i", "c", " ", "S", "h", "a", "p", "e", "s", " ", "a", "n", "d", " ", "P", "r", "o", "p", "e", "r", "t", "i", "e", "s">>
    [] s = "Angles and Triangles" -> <<"A", "n", "g", "l", "e", "s", " ", "a", "n", "d", " ", "T", "r", "i", "a", "n", "g", "l", "e", "s">>
    [] s = "Area and Perimeter" -> <<"A", "r", "e", "a", " ", "a", "n", "d", " ", "P", "e", "r", "i", "m", "e", "t", "e", "r">>
    [] s = "Circle Geometry" -> <<"C", "i", "r", "c", "l", "e", " ", "G", "e", "o", "m", "e", "t", "r", "y">>
    [] s = "3D Shapes and Volume" -> <<"3", "D", " ", "S", "h", "a", "p", "e", "s", " ", "a", "n", "d", " ", "V", "o", "l", "u", "m", "e">>
    [] s = "Introduction to Trigonometry" -> <<"I", "n", "t", "r", "o", "d", "u", "c", "t", "i", "o", "n", " ", "t", "o", " ", "T", "r", "i", "g", "o", "n", "o", "m", "e", "t", "r", "y">>
    [] s = "Sine, Cosine, and Tangent" -> <<"S", "i", "n", "e", ",", " ", "C", "o", "s", "i", "n", "e", ",", " ", "a", "n", "d", " ", "T", "a", "n", "g", "e", "n", "t">>
    [] s = "Unit Circle" -> <<"U", "n", "i", "t", " ", "C", "i", "r", "c", "l", "e">>
    [] s = "Trigonometric Identities" -> <<"T", "r", "i", "g", "o", "n", "o", "m", "e", "t", "r", "i", "c", " ", "I", "d", "e", "n", "t", "i", "t", "i", "e", "s">>
    [] s = "Applications of Trigonometry" -> <<"A", "p", "p", "l", "i", "c", "a", "t", "i", "o", "n", "s", " ", "o", "f", " ", "T", "r", "i", "g", "o", "n", "o", "m", "e", "t", "r", "y">>
    [] s = "Limits and Continuity" -> <<"L", "i", "m", "i", "t", "s", " ", "a", "n", "d", " ", "C", "o", "n", "t", "i", "n", "u", "i", "t", "y">>
    [] s = "Introduction to Derivatives" -> <<"I", "n", "t", "r", "o", "d", "u", "c", "t", "i", "o", "n", " ", "t", "o", " ", "D", "e", "r", "i", "v", "a", "t", "i", "v", "e", "s">>
    [] s = "Applications of Derivatives" -> <<"A", "p", "p", "l", "i", "c", "a", "t", "i", "o", "n", "s", " ", "o", "f", " ", "D", "e", "r", "i", "v", "a", "t", "i", "v", "e", "s">>
    [] s = "Introduction to Integrals" -> <<"I", "n", "t", "r", "o", "d", "u", "c", "t", "i", "o", "n", " ", "t", "o", " ", "I", "n", "t", "e", "g", "r", "a", "l", "s">>
    [] s = "Applications of Integration" -> <<"A", "p", "p", "l", "i", "c", "a", "t", "i", "o", "n", "s", " ", "o", "f", " ", "I", "n", "t", "e", "g", "r", "a", "t", "i", "o", "n">>
    [] s = "algebra" -> <<"a", "l", "g", "e", "b", "r", "a">>
    [] s = "geometry" -> <<"g", "e", "o", "m", "e", "t", "r", "y">>
    [] s = "trigonometry" -> <<"t", "r", "i", "g", "o", "n", "o", "m", "e", "t", "r", "y">>
    [] s = "calculus" -> <<"c", "a", "l", "c", "u", "l", "u", "s">>
    [] s = "Geometry" -> <<"G", "e", "o", "m", "e", "t", "r", "y">>
    [] s = "CALCULUS" -> <<"C", "A", "L", "C", "U", "L", "U", "S">>
    [] s = "physics" -> <<"p", "h", "y", "s", "i", "c", "s">>
    [] s = "linear equations" -> <<"l", "i", "n", "e", "a", "r", " ", "e", "q", "u", "a", "t", "i", "o", "n", "s">>
    [] s = "Circle" -> <<"C", "i", "r", "c", "l", "e">>
    [] s = "angles" -> <<"a", "n", "g", "l", "e", "s">>
    [] s = "equations" -> <<"e", "q", "u", "a", "t", "i", "o", "n", "s">>
    [] s = "Linear" -> <<"L", "i", "n", "e", "a", "r">>
    [] s = "" -> <<>>
    [] s = "xyz" -> <<"x", "y", "z">>
    [] s = "EQUATIONS" -> <<"E", "Q", "U", "A", "T", "I", "O", "N", "S">>
    [] s = "tion" -> <<"t", "i", "o", "n">>
    [] s = "B" -> <<"B">>
    [] s = "b" -> <<"b">>
    [] s = " b " -> <<" ", "b", " ">>
    [] s = "A" -> <<"A">>
    [] s = "x + 1" -> <<"x", " ", "+", " ", "1">>
    [] s = "X + 1" -> <<"X", " ", "+", " ", "1">>
    [] s = "x+1" -> <<"x", "+", "1">>
    [] s = "\tB\n" -> <<"\t", "B", "\n">>
    [] s = "  " -> <<" ", " ">>
    [] s = " Good work. " -> <<" ", "G", "o", "o", "d", " ", "w", "o", "r", "k", ".", " ">>
    [] s = "Good work." -> <<"G", "o", "o", "d", " ", "w", "o", "r", "k", ".">>

\* the upper-case letters and their lower-case forms
LowerCase ==
  ("A" :> "a") @@ ("B" :> "b") @@ ("C" :> "c") @@ ("D" :> "d")
  @@ ("E" :> "e") @@ ("F" :> "f") @@ ("G" :> "g") @@ ("H" :> "h")
  @@ ("I" :> "i") @@ ("J" :> "j") @@ ("K" :> "k") @@ ("L" :> "l")
  @@ ("M" :> "m") @@ ("N" :> "n") @@ ("O" :> "o") @@ ("P" :> "p")
  @@ ("Q" :> "q") @@ ("R" :> "r") @@ ("S" :> "s") @@ ("T" :> "t")
  @@ ("U" :> "u") @@ ("V" :> "v") @@ ("W" :> "w") @@ ("X" :> "x")
  @@ ("Y" :> "y") @@ ("Z" :> "z")

\* str.lower() on one character
LowerChar(c) == IF c \in DOMAIN LowerCase THEN LowerCase[c] ELSE c

\* str.lower()
Lower(cs) == [i \in 1..Len(cs) |-> LowerChar(cs[i])]

\* `a in b` on strings: a occurs in b as a contiguous substring
Contains(b, a) ==
  \E k \in 0..(Len(b) - Len(a)) : \A i \in 1..Len(a) : b[k + i] = a[i]

\* the characters str.strip() removes from both ends
Whitespace == {" ", "\t", "\n"}

RECURSIVE LStrip(_)
LStrip(cs) ==
  IF cs # <<>> /\ Head(cs) \in Whitespace THEN LStrip(Tail(cs)) ELSE cs

RECURSIVE RStrip(_)
RStrip(cs) ==
  IF cs # <<>> /\ cs[Len(cs)] \in Whitespace
    THEN RStrip(SubSeq(cs, 1, Len(cs) - 1)) ELSE cs

\* str.strip()
Strip(cs) == RStrip(LStrip(cs))

\* str.split() yields no word: the string is empty or all blanks
NoWord(cs) == \A i \in 1..Len(cs) : cs[i] = " "

\* ------------------------------------------------------------ topic planner
\* topic_sequences of _get_quick_topics
topic_sequences(key) ==
  CASE key = "algebra" ->
         <<"Variables and Expressions", "Linear Equations",
           "Systems of Equations", "Quadratic Functions",
           "Polynomial Operations">>
    [] key = "geometry" ->
         <<"Basic Shapes and Properties", "Angles and Triangles",
           "Area and Perimeter", "Circle Geometry", "3D Shapes and Volume">>
    [] key = "trigonometry" ->
         <<"Introduction to Trigonometry", "Sine, Cosine, and Tangent",
           "Unit Circle", "Trigonometric Identities",
           "Applications of Trigonometry">>
    [] key = "calculus" ->
         <<"Limits and Continuity", "Introduction to Derivatives",
           "Applications of Derivatives", "Introduction to Integrals",
           "Applications of Integration">>

SubjectKeys == {"algebra", "geometry", "trigonometry", "calculus"}

\* topic_sequences.get(subject.lower(), topic_sequences['algebra'])
BaseTopics(subject) ==
  IF \E k \in SubjectKeys : Chars(k) = Lower(Chars(subject))
    THEN topic_sequences(CHOOSE k \in SubjectKeys : Chars(k) = Lower(Chars(subject)))
    ELSE topic_sequences("algebra")

InSeq(x, s) == \E i \in 1..Len(s) : s[i] = x

\* the inner loop over base_topics for one weak area: append each matching
\* topic that is not yet in the list
RECURSIVE AppendMatches(_, _, _, _)
AppendMatches(acc, weak, base, j) ==
  IF j > Len(base) THEN acc
  ELSE AppendMatches(
         IF Contains(Lower(Chars(base[j])), Lower(Chars(weak))) /\ ~InSeq(base[j], acc)
           THEN Append(acc, base[j]) ELSE acc,
         weak, base, j + 1)

\* the outer loop over weak_areas
RECURSIVE Prioritize(_, _, _, _)
Prioritize(acc, weak_areas, base, w) ==
  IF w > Len(weak_areas) THEN acc
  ELSE Prioritize(AppendMatches(acc, weak_areas[w], base, 1), weak_areas, base, w + 1)

\* "Add remaining topics"
RECURSIVE AppendRemaining(_, _, _)
AppendRemaining(acc, base, j) ==
  IF j > Len(base) THEN acc
  ELSE AppendRemaining(IF InSeq(base[j], acc) THEN acc ELSE Append(acc, base[j]),
                       base, j + 1)

Take(s, n) == SubSeq(s, 1, Min(n, Len(s)))

\* the canonical sequence whatever the weak areas
GetQuickTopicsCanonical(subject, weak_areas) == Take(BaseTopics(subject), 5)

\* AgentOrchestrator._get_quick_topics
GetQuickTopics(subject, weak_areas) ==
  LET base == BaseTopics(subject) IN
  IF weak_areas # <<>>
    THEN Take(AppendRemaining(Prioritize(<<>>, weak_areas, base, 1), base, 1), 5)
    ELSE Take(base, 5)

\* ------------------------------------------------------------ request data
\* A knowledge_level as a client can supply it: an integer, a string, null,
\* or no key at all.
KLInt(n) == [t |-> "int", n |-> n, s |-> ""]
KLStr(s) == [t |-> "str", n |-> 0, s |-> s]
KLNull   == [t |-> "null", n |-> 0, s |-> ""]
KLAbsent == [t |-> "absent", n |-> 0, s |-> ""]

\* int(s) on the strings the requests carry: the value, or ValueError
IntLiterals == {"3", " 4 "}
IntOf(s) == CASE s = "3" -> 3 [] s = " 4 " -> 4 [] OTHER -> 0

\* process_new_learner, "Ensure knowledge_level is an integer": get() with
\* default 1; a string is parsed, 1 on ValueError; any other value is kept.
NormalizeKnowledgeLevel(kl) ==
  CASE kl.t = "absent" -> KLInt(DefaultKnowledgeLevel)
    [] kl.t = "str" -> IF kl.s \in IntLiterals THEN KLInt(IntOf(kl.s))
                                             ELSE KLInt(DefaultKnowledgeLevel)
    [] OTHER -> kl

\* weak_areas as supplied: a list of strings, or a value that is not a list
WAList(v) == [t |-> "list", v |-> v]
WAOther   == [t |-> "other", v |-> <<>>]

\* process_new_learner, "Ensure weak_areas is a list"
NormalizeWeakAreas(wa) == IF wa.t = "list" THEN wa.v ELSE <<>>

\* profile.knowledge_level + (i // 2) raises TypeError unless numeric
DifficultyRaises(kl) == kl.t # "int"

\* min(5, profile.knowledge_level + (i // 2)), i 0-based
Difficulty(kl, i) == Min(MaxDifficulty, kl.n + (i \div 2))

\* the request bodies of concurrent intakes: a well-formed profile, one
\* whose knowledge_level is null, and one without a name
ProfileData ==
  { [has_name |-> TRUE, knowledge_level |-> KLInt(1), subject |-> "algebra",
     weak_areas |-> WAList(<<"linear equations">>), learning_style |-> "visual"],
    [has_name |-> FALSE, knowledge_level |-> KLInt(1), subject |-> "algebra",
     weak_areas |-> WAList(<<>>), learning_style |-> "visual"],
    [has_name |-> TRUE, knowledge_level |-> KLNull, subject |-> "algebra",
     weak_areas |-> WAList(<<>>), learning_style |-> "visual"] }

\* the request bodies of the intake study: every subject spelling, weak-area
\* list and knowledge level below
WideProfileData ==
  [ has_name : BOOLEAN,
    knowledge_level : {KLInt(-3), KLInt(0), KLInt(1), KLInt(4), KLInt(7),
                       KLStr("3"), KLStr("abc"),
                       KLNull, KLAbsent},
    subject : {"algebra", "Geometry", "CALCULUS", "trigonometry", "physics"},
    weak_areas : {WAList(<<>>), WAList(<<"linear equations">>),
                  WAList(<<"Circle", "angles">>), WAList(<<"">>),
                  WAList(<<"tion", "Linear">>), WAList(<<"xyz">>), WAOther},
    learning_style : {"visual", "kinesthetic"} ]

\* ------------------------------------------------------------------- state
VARIABLES
  learner_profiles,    \* db.learner_profiles: learner id -> profile document
  learning_resources,  \* db.learning_resources: resource id -> document
  learning_paths,      \* db.learning_paths: path id -> document
  intake,              \* per request of /api/learner/create: position, locals
  task,                \* per background thread: position and locals
  threads,             \* number of Thread.start() calls so far
  writes,              \* per resource: the tasks whose update_one set it ready
  gateway              \* the callers blocked in GeminiClient.generate

pipeline_vars == <<learner_profiles, learning_resources, learning_paths,
                   intake, task, threads, writes, gateway>>

\* uuid4(): the i-th resource id of intake l (i in 1..5), and its path id
ResourceId(l, i) == (l - 1) * SkeletonSize + i

\* one path id for every intake
PathIdShared(l) == 1

PathId(l) == l

\* calls counts the gateway calls the thread has made
IdleTask == [pc |-> "none", resources |-> <<>>, idx |-> 0, detailed |-> "none",
             calls |-> 0]

PipelineInit ==
  /\ learner_profiles = <<>>
  /\ learning_resources = <<>>
  /\ learning_paths = <<>>
  /\ intake = [l \in Learners |-> [pc |-> "idle", topics |-> <<>>,
                                    resource_ids |-> <<>>, result |-> <<>>]]
  /\ task = [l \in Learners |-> IdleTask]
  /\ threads = 0
  /\ writes = <<>>
  /\ gateway = {}

\* ------------------------------------------------------------------ intake
\* process_new_learner up to db.learner_profiles.insert_one: coerce the
\* loosely typed fields, build the profile, persist it; then the first line
\* of _create_initial_path, topics = _get_quick_topics(...).  A body without
\* 'name' raises KeyError before anything is persisted.
IntakeProfile(l, data) ==
  /\ intake[l].pc = "idle"
  /\ IF ~data.has_name
       THEN /\ intake' = [intake EXCEPT ![l].pc = "failed"]
            /\ UNCHANGED learner_profiles
       ELSE /\ learner_profiles' = learner_profiles @@
                 (l :> [id |-> l,
                        learning_style |-> data.learning_style,
                        knowledge_level |-> NormalizeKnowledgeLevel(data.knowledge_level),
                        subject |-> data.subject,
                        weak_areas |-> NormalizeWeakAreas(data.weak_areas)])
            /\ intake' = [intake EXCEPT
                 ![l].pc = "profile_saved",
                 ![l].topics = Take(GetQuickTopics(data.subject,
                                                   NormalizeWeakAreas(data.weak_areas)),
                                    SkeletonSize)]
  /\ UNCHANGED <<learning_resources, learning_paths, task, threads, writes, gateway>>

\* the placeholder titled by the bare topic
BasicResourceBareTitle(profile, resource_id, topic, i) ==
  [ id |-> resource_id,
    title |-> topic,
    type |-> "lesson",
    content |-> "Loading comprehensive content for " \o topic \o "...",
    difficulty_level |-> Difficulty(profile.knowledge_level, i),
    learning_style |-> profile.learning_style,
    topic |-> topic,
    learner_id |-> profile.id,
    status |-> "generating" ]

\* the placeholder document of _create_initial_path for topics[i], i 0-based
BasicResource(profile, resource_id, topic, i) ==
  [ id |-> resource_id,
    title |-> topic \o " - Introduction",
    type |-> "lesson",
    content |-> "Loading comprehensive content for " \o topic \o "...",
    difficulty_level |-> Difficulty(profile.knowledge_level, i),
    learning_style |-> profile.learning_style,
    topic |-> topic,
    learner_id |-> profile.id,
    status |-> "generating" ]

\* the loop iteration with the content generated inside the request: the
\* intake itself calls the gateway
IntakeResourceSynchronous(l) ==
  /\ intake[l].pc = "profile_saved"
  /\ LET profile == learner_profiles[l]
         topics == intake[l].topics
         i == Len(intake[l].resource_ids)
     IN /\ i < Len(topics)
        /\ IF DifficultyRaises(profile.knowledge_level)
             THEN /\ intake' = [intake EXCEPT ![l].pc = "failed"]
                  /\ UNCHANGED <<learning_resources, gateway>>
             ELSE /\ learning_resources' = learning_resources @@
                       (ResourceId(l, i + 1) :>
                          [id |-> ResourceId(l, i + 1),
                           title |-> topics[i + 1] \o " - Introduction",
                           type |-> "lesson",
                           content |-> "Loading comprehensive content for "
                                         \o topics[i + 1] \o "...",
                           difficulty_level |-> Difficulty(profile.knowledge_level, i),
                           learning_style |-> profile.learning_style,
                           topic |-> topics[i + 1],
                           learner_id |-> profile.id,
                           status |-> "generating"])
                  /\ intake' = [intake EXCEPT
                       ![l].resource_ids = Append(@, ResourceId(l, i + 1))]
                  /\ gateway' = gateway \cup {<<"intake", l>>}
  /\ UNCHANGED <<learner_profiles, learning_paths, task, threads, writes>>

\* one iteration of the loop of _create_initial_path: build the next
\* placeholder and insert it.  A knowledge_level that is not a number raises
\* in the first iteration; the route answers 500.
IntakeResource(l) ==
  /\ intake[l].pc = "profile_saved"
  /\ LET profile == learner_profiles[l]
         topics == intake[l].topics
         i == Len(intake[l].resource_ids)
     IN /\ i < Len(topics)
        /\ IF DifficultyRaises(profile.knowledge_level)
             THEN /\ intake' = [intake EXCEPT ![l].pc = "failed"]
                  /\ UNCHANGED learning_resources
             ELSE /\ learning_resources' = learning_resources @@
                       (ResourceId(l, i + 1) :>
                          BasicResource(profile, ResourceId(l, i + 1), topics[i + 1], i))
                  /\ intake' = [intake EXCEPT
                       ![l].resource_ids = Append(@, ResourceId(l, i + 1))]
  /\ UNCHANGED <<learner_profiles, learning_paths, task, threads, writes, gateway>>

\* process_new_learner, "Save learning path": the loop is over; build the
\* LearningPath and insert it.
IntakePath(l) ==
  /\ intake[l].pc = "profile_saved"
  /\ Len(intake[l].resource_ids) = Len(intake[l].topics)
  /\ learning_paths' = learning_paths @@
       (PathId(l) :> [id |-> PathId(l),
                      learner_id |-> l,
                      resources |-> intake[l].resource_ids,
                      current_position |-> 0,
                      progress |-> <<>>])
  /\ intake' = [intake EXCEPT ![l].pc = "path_saved"]
  /\ UNCHANGED <<learner_profiles, learning_resources, task, threads, writes, gateway>>

\* the thread started as soon as the placeholders are stored, before the
\* path is inserted
IntakeSpawnBeforePath(l) ==
  \/ /\ intake[l].pc = "profile_saved"
     /\ intake[l].topics # <<>>
     /\ Len(intake[l].resource_ids) = Len(intake[l].topics)
     /\ task[l].pc = "none"
     /\ task' = [task EXCEPT ![l] = [IdleTask EXCEPT !.pc = "start"]]
     /\ threads' = threads + 1
     /\ UNCHANGED <<learner_profiles, learning_resources, learning_paths,
                    intake, writes, gateway>>
  \/ /\ intake[l].pc = "path_saved"
     /\ intake' = [intake EXCEPT ![l].pc = "returned",
                                 ![l].result = Take(intake[l].resource_ids, InitialReturned)]
     /\ UNCHANGED <<learner_profiles, learning_resources, learning_paths,
                    task, threads, writes, gateway>>

\* the return with two threads started
IntakeSpawnTwice(l) ==
  /\ intake[l].pc = "path_saved"
  /\ task' = [task EXCEPT ![l] = [IdleTask EXCEPT !.pc = "start"]]
  /\ threads' = threads + 2
  /\ intake' = [intake EXCEPT ![l].pc = "returned",
                              ![l].result = Take(intake[l].resource_ids, InitialReturned)]
  /\ UNCHANGED <<learner_profiles, learning_resources, learning_paths, writes, gateway>>

\* _start_background_generation and the return of process_new_learner: start
\* the daemon thread and answer with the first three resource ids.
IntakeSpawn(l) ==
  /\ intake[l].pc = "path_saved"
  /\ task' = [task EXCEPT ![l] = [IdleTask EXCEPT !.pc = "start"]]
  /\ threads' = threads + 1
  /\ intake' = [intake EXCEPT ![l].pc = "returned",
                              ![l].result = Take(intake[l].resource_ids, InitialReturned)]
  /\ UNCHANGED <<learner_profiles, learning_resources, learning_paths, writes, gateway>>

\* ------------------------------------------------------- content synthesizer
\* What GeminiClient.generate does for one call of a background task: it
\* returns a complete JSON object, a JSON object lacking required keys, the
\* empty string, text without an object, a truncated object, or it raises.
GatewayOutcomes == {"complete", "partial", "empty", "text", "truncated", "error"}

\* _extract_json_from_response: the outermost {...} span, or None
ExtractJson(outcome) ==
  CASE outcome = "complete" -> "object"
    [] outcome = "partial" -> "partial_object"
    [] outcome = "truncated" -> "broken_object"
    [] OTHER -> "None"

\* _generate_fallback_content raises IndexError on topic.lower().split()[0]
\* when the topic has no word
FallbackRaises(topic) == NoWord(Lower(Chars(topic)))

\* LearningContentGenerator._generate_single_content: which content it
\* returns ("raise" when the fallback itself raises)
GenerateSingleContent(outcome, topic) ==
  LET fallback == IF FallbackRaises(topic) THEN "raise" ELSE "fallback" IN
  IF outcome = "error" THEN fallback
  ELSE CASE ExtractJson(outcome) = "object" -> "generated"
         [] ExtractJson(outcome) = "partial_object" -> "partial"
         [] ExtractJson(outcome) = "broken_object" -> fallback
         [] OTHER -> fallback

\* --------------------------------------------------------- background task
\* an iteration that passes over the next resource id
AdvanceSkipping(t) ==
  IF t.idx + 1 < Len(t.resources)
    THEN [t EXCEPT !.pc = "loop", !.idx = @ + 2]
    ELSE [t EXCEPT !.pc = "done"]

\* next iteration of `for resource_id in resource_ids`, or the end of the task
Advance(t) ==
  IF t.idx < Len(t.resources)
    THEN [t EXCEPT !.pc = "loop", !.idx = @ + 1]
    ELSE [t EXCEPT !.pc = "done"]

\* generate_content: db.learning_paths.find_one({'id': path_id})
BgStart(l) ==
  /\ task[l].pc = "start"
  /\ IF PathId(l) \in DOMAIN learning_paths
       THEN LET ids == learning_paths[PathId(l)].resources IN
            task' = [task EXCEPT ![l] =
                       IF ids = <<>> THEN [@ EXCEPT !.pc = "done"]
                       ELSE [@ EXCEPT !.pc = "loop", !.resources = ids, !.idx = 1]]
       ELSE task' = [task EXCEPT ![l].pc = "done"]
  /\ UNCHANGED <<learner_profiles, learning_resources, learning_paths,
                 intake, threads, writes, gateway>>

\* generate_content: find_one of the resource; when it is still
\* 'generating' the task sends the prompt and blocks on the gateway (the
\* content of the previous iteration is dead from here on)
BgFind(l) ==
  /\ task[l].pc = "loop"
  /\ LET resource_id == task[l].resources[task[l].idx] IN
     IF /\ resource_id \in DOMAIN learning_resources
        /\ learning_resources[resource_id].status = "generating"
       THEN /\ task' = [task EXCEPT ![l].pc = "calling", ![l].detailed = "none",
                                    ![l].calls = @ + 1]
            /\ gateway' = gateway \cup {<<"task", l>>}
       ELSE /\ task' = [task EXCEPT ![l] = Advance(@)]
            /\ UNCHANGED gateway
  /\ UNCHANGED <<learner_profiles, learning_resources, learning_paths,
                 intake, threads, writes>>

\* a $set of the whole generated document (detailed_content.to_dict()): the
\* resource also takes the id and the type of the generated content
UpdateDataWholeDocument(doc, detailed) ==
  IF detailed # "none"
    THEN [doc EXCEPT
           !.id = 0,
           !.title = "detailed title",
           !.type = "generated",
           !.content = "detailed content",
           !.status = "ready"]
    ELSE [doc EXCEPT !.status = "ready"]

\* a $set that marks the resource ready only when the gateway's content was
\* used
UpdateDataOnSuccess(doc, detailed) ==
  IF detailed \in {"generated", "partial"}
    THEN [doc EXCEPT
           !.title = "detailed title",
           !.content = "detailed content",
           !.status = "ready"]
    ELSE doc

\* the $set of update_one: all generated fields when detailed_content is
\* truthy, the status alone otherwise
UpdateData(doc, detailed) ==
  IF detailed # "none"
    THEN [doc EXCEPT
           !.title = "detailed title",
           !.content = "detailed content",
           !.status = "ready"]
    ELSE [doc EXCEPT !.status = "ready"]

\* a task that sends the prompt again when the gateway raised
BgUpdateRetrying(l, outcome) ==
  /\ task[l].pc = "calling"
  /\ outcome \in GatewayOutcomes
  /\ LET resource_id == task[l].resources[task[l].idx]
         content == GenerateSingleContent(outcome, learning_resources[resource_id].topic)
     IN IF outcome = "error" /\ task[l].calls <= Len(task[l].resources)
          THEN /\ task' = [task EXCEPT ![l].calls = @ + 1]
               /\ UNCHANGED <<learning_resources, writes, gateway>>
          ELSE /\ gateway' = gateway \ {<<"task", l>>}
               /\ learning_resources' =
                    [learning_resources EXCEPT ![resource_id] = UpdateData(@, content)]
               /\ writes' = IF resource_id \in DOMAIN writes
                              THEN [writes EXCEPT ![resource_id] = Append(@, l)]
                              ELSE writes @@ (resource_id :> <<l>>)
               /\ task' = [task EXCEPT ![l] = Advance([@ EXCEPT !.detailed = content])]
  /\ UNCHANGED <<learner_profiles, learning_paths, intake, threads>>

\* generate_content: the gateway call of the task returns or raises,
\* _generate_single_content turns the outcome into a LearningContent, and
\* db.learning_resources.update_one stores it.  An exception of the fallback
\* generator reaches the task's except clause and ends the thread.
BgUpdate(l, outcome) ==
  /\ task[l].pc = "calling"
  /\ outcome \in GatewayOutcomes
  /\ gateway' = gateway \ {<<"task", l>>}
  /\ LET resource_id == task[l].resources[task[l].idx]
         content == GenerateSingleContent(outcome, learning_resources[resource_id].topic)
     IN IF content = "raise"
          THEN /\ task' = [task EXCEPT ![l].pc = "crashed"]
               /\ UNCHANGED <<learning_resources, writes>>
          ELSE /\ learning_resources' =
                    [learning_resources EXCEPT ![resource_id] = UpdateData(@, content)]
               /\ writes' = IF resource_id \in DOMAIN writes
                              THEN [writes EXCEPT ![resource_id] = Append(@, l)]
                              ELSE writes @@ (resource_id :> <<l>>)
               /\ task' = [task EXCEPT ![l] = Advance([@ EXCEPT !.detailed = content])]
  /\ UNCHANGED <<learner_profiles, learning_paths, intake, threads>>

\* a store error that is raised out of the thread into the intake that
\* started it
BgStoreErrorEscaping(l) ==
  /\ task[l].pc \in {"start", "loop", "calling"}
  /\ task' = [task EXCEPT ![l].pc = "crashed"]
  /\ intake' = [intake EXCEPT ![l].pc = "failed"]
  /\ gateway' = gateway \ {<<"task", l>>}
  /\ UNCHANGED <<learner_profiles, learning_resources, learning_paths,
                 threads, writes>>

\* generate_content: a call to the store (find_one of the path or of a
\* resource, update_one) raises; the except clause of the task prints the
\* error and the thread ends
BgStoreError(l) ==
  /\ task[l].pc \in {"start", "loop", "calling"}
  /\ task' = [task EXCEPT ![l].pc = "crashed"]
  /\ gateway' = gateway \ {<<"task", l>>}
  /\ UNCHANGED <<learner_profiles, learning_resources, learning_paths,
                 intake, threads, writes>>

\* ------------------------------------------------------------ quiz handlers
VARIABLES
  quizzes,           \* db.quizzes: quiz id -> document
  quiz_submissions,  \* db.quiz_submissions: number of documents (the program
                     \* only inserts into and counts this collection)
  submit             \* per request of /api/quiz/<id>/submit: position, locals

quiz_vars == <<quizzes, quiz_submissions, submit>>

Submitters == 1..MaxSubmitters

\* a learner_id or resource id no document carries
UnknownId == 0

IdleSubmit == [pc |-> "idle", learner_id |-> UnknownId, resource_id |-> UnknownId,
               feedback |-> <<>>, position |-> 0, length |-> 0]

QuizInit ==
  /\ quizzes = <<>>
  /\ quiz_submissions = 0
  /\ submit = [s \in Submitters |-> IdleSubmit]

\* a quiz request that also sends the resource back to generation
GetResourceQuizRegenerating(resource_id) ==
  /\ resource_id \in DOMAIN learning_resources
  /\ Len(quizzes) < MaxQuizzes
  /\ quizzes' = Append(quizzes, [id |-> Len(quizzes) + 1,
                                 resource_id |-> resource_id,
                                 questions |-> ResourceQuizCount,
                                 status |-> "active"])
  /\ learning_resources' =
       [learning_resources EXCEPT ![resource_id].status = "generating"]
  /\ UNCHANGED <<learner_profiles, learning_paths, intake, task, threads,
                 writes, gateway, quiz_submissions, submit>>

\* get_resource_quiz for a stored resource: three questions from the quiz
\* synthesizer, then db.quizzes.insert_one.  (An unknown resource id is
\* answered 404 with no change of state.)
GetResourceQuiz(resource_id) ==
  /\ resource_id \in DOMAIN learning_resources
  /\ Len(quizzes) < MaxQuizzes
  /\ quizzes' = Append(quizzes, [id |-> Len(quizzes) + 1,
                                 resource_id |-> resource_id,
                                 questions |-> ResourceQuizCount,
                                 status |-> "active"])
  /\ UNCHANGED <<pipeline_vars, quiz_submissions, submit>>

\* EvaluatorAgent.generate_overall_feedback on results of which `correct`
\* are right: total_score is the sum of the 100/0 scores; average_score is
\* total_score / total_questions, kept as that fraction
OverallFeedback(total, correct) ==
  IF total = 0
    THEN [total_score |-> 0, total_questions |-> 0, correct_answers |-> 0]
    ELSE [total_score |-> 100 * correct, total_questions |-> total,
          correct_answers |-> correct]

\* the threshold of the recommendation text, 70, in place of 60
PassesAtSeventy(feedback) ==
  /\ feedback.total_questions > 0
  /\ feedback.total_score >= 70 * feedback.total_questions

\* overall_feedback.get('average_score', 0) >= 60
Passes(feedback) ==
  /\ feedback.total_questions > 0
  /\ feedback.total_score >= PassScore * feedback.total_questions

\* the path document of a learner, as find_one({'learner_id': ...}) finds it
HasPath(learner_id) == \E p \in DOMAIN learning_paths : learning_paths[p].learner_id = learner_id
PathOf(learner_id) == CHOOSE p \in DOMAIN learning_paths : learning_paths[p].learner_id = learner_id

\* submit_quiz up to db.learning_paths.find_one: find the quiz, evaluate
\* every answer, aggregate, db.quiz_submissions.insert_one; below the
\* threshold, or without a path, the handler returns; otherwise it has read
\* the path document.  (An unknown quiz id is answered 404 with no change
\* of state.)  The request is served by the first free handler; handlers are
\* interchangeable.
SubmitQuiz(s, quiz_id, learner_id, correct) ==
  /\ submit[s].pc = "idle"
  /\ \A t \in Submitters : t < s => submit[t].pc # "idle"
  /\ quiz_id \in DOMAIN quizzes
  /\ correct \in 0..quizzes[quiz_id].questions
  /\ quiz_submissions < MaxSubmissions
  /\ quiz_submissions' = quiz_submissions + 1
  /\ LET feedback == OverallFeedback(quizzes[quiz_id].questions, correct) IN
     IF Passes(feedback) /\ HasPath(learner_id)
       THEN LET path == learning_paths[PathOf(learner_id)] IN
            submit' = [submit EXCEPT ![s] =
              [pc |-> "read",
               learner_id |-> learner_id,
               resource_id |-> quizzes[quiz_id].resource_id,
               feedback |-> feedback,
               position |-> path.current_position,
               length |-> Len(path.resources)]]
       ELSE submit' = submit
  /\ UNCHANGED <<pipeline_vars, quizzes>>

\* the increment without the cap at the path length
NewPositionUncapped(position, length) == position + 1

\* min(learning_path['current_position'] + 1, len(learning_path['resources']))
NewPosition(position, length) == Min(position + 1, length)

\* submit_quiz: db.learning_paths.update_one with the new position and the
\* feedback under progress.<resource id>; then the handler returns
SubmitWritePath(s) ==
  /\ submit[s].pc = "read"
  /\ LET p == PathOf(submit[s].learner_id) IN
     learning_paths' = [learning_paths EXCEPT
       ![p].current_position = NewPosition(submit[s].position, submit[s].length),
       ![p].progress = IF submit[s].resource_id \in DOMAIN @
                         THEN [@ EXCEPT ![submit[s].resource_id] = submit[s].feedback]
                         ELSE @ @@ (submit[s].resource_id :> submit[s].feedback)]
  /\ submit' = [submit EXCEPT ![s] = IdleSubmit]
  /\ UNCHANGED <<learner_profiles, learning_resources, intake, task, threads,
                 writes, gateway, quizzes, quiz_submissions>>

\* ---------------------------------------------------------- quiz synthesizer
\* max_retries of generate_quiz_questions
max_retries == 3
\* len(templates): entries per bank of _generate_basic_questions
BankSize == 5
\* options[:4]
OptionCount == 4

\* One element of the JSON array a response carries: a JSON object with or
\* without each required key, or a bare number.
Item(question, options_list, options, has_correct, correct, has_topic) ==
  [ t |-> "dict", has_question |-> question, options_list |-> options_list,
    options |-> options, has_correct |-> has_correct, correct |-> correct,
    has_topic |-> has_topic ]

NumberItem == [Item(FALSE, FALSE, <<>>, FALSE, "", FALSE) EXCEPT !.t = "int"]

ItemKinds ==
  { Item(TRUE, TRUE, <<"A", "B", "C", "D">>, TRUE, "B", FALSE),       \* well formed
    Item(TRUE, TRUE, <<"A", "B", "C", "D", "E">>, TRUE, "E", TRUE),   \* answer is the fifth option
    Item(TRUE, TRUE, <<"A", "B", "C", "D">>, TRUE, "Z", FALSE),       \* answer is no option
    Item(TRUE, TRUE, <<"A", "A", "B", "C">>, TRUE, "A", FALSE),       \* repeated option
    Item(TRUE, TRUE, <<"A", "B", "C">>, TRUE, "A", FALSE),            \* three options
    Item(TRUE, TRUE, <<"A", "B", "C", "D">>, FALSE, "", FALSE),       \* no correct_answer
    Item(FALSE, TRUE, <<"A", "B", "C", "D">>, TRUE, "A", FALSE),      \* no question
    Item(TRUE, FALSE, <<>>, TRUE, "A", FALSE),                        \* options is a string
    NumberItem }

SeqsUpTo(S, n) == UNION {[1..k -> S] : k \in 0..n}

\* What GeminiClient.generate does for one attempt: it raises, returns the
\* empty string, text that is no JSON, a truncated array, a JSON object, or
\* a JSON array of items.
Responses ==
  {[kind |-> k, items |-> <<>>] : k \in {"raise", "empty", "text", "truncated", "object"}}
    \cup {[kind |-> "array", items |-> s] : s \in SeqsUpTo(ItemKinds, MaxItems)}

\* a validation that also skips a q_data whose stated answer is none of
\* its first four options
ValidateAnswer(item) ==
  IF item.t # "dict" THEN "raise"
  ELSE IF ~(item.has_question /\ item.has_correct) THEN "skip"
  ELSE IF ~item.options_list \/ Len(item.options) < OptionCount THEN "skip"
  ELSE IF ~InSeq(item.correct, SubSeq(item.options, 1, OptionCount)) THEN "skip"
  ELSE "keep"

\* the validation of one q_data: "raise" (TypeError on a number), "skip"
\* (continue) or "keep"
Validate(item) ==
  IF item.t # "dict" THEN "raise"
  ELSE IF ~(item.has_question /\ item.has_correct) THEN "skip"
  ELSE IF ~item.options_list \/ Len(item.options) < OptionCount THEN "skip"
  ELSE "keep"

\* the stated answer, taken as it is
CorrectAnswerStated(options, stated) == stated

\* "Make sure correct answer is in options": the stated answer, or the first
\* option when the stated answer is not among the first four
CorrectAnswer(options, stated) ==
  IF InSeq(stated, options) THEN stated ELSE options[1]

\* the QuizQuestion built from the kept q_data at place i of the array; its
\* uuid4 id is modelled by the place
MakeQuestion(item, topic, difficulty, i) ==
  LET options == SubSeq(item.options, 1, OptionCount) IN
  [ id |-> i,
    question |-> "generated question",
    options |-> options,
    correct_answer |-> CorrectAnswer(options, item.correct),
    topic |-> IF item.has_topic THEN "generated topic" ELSE topic,
    difficulty_level |-> difficulty,
    resource_id |-> "" ]

RECURSIVE KeptQuestions(_, _, _, _)
KeptQuestions(data, topic, difficulty, i) ==
  IF i > Len(data) THEN <<>>
  ELSE IF Validate(data[i]) = "keep"
         THEN <<MakeQuestion(data[i], topic, difficulty, i)>>
                \o KeptQuestions(data, topic, difficulty, i + 1)
         ELSE KeptQuestions(data, topic, difficulty, i + 1)

\* generate_quiz_questions from the gateway call to questions_data[:count]:
\* what the gateway's behaviour raises ("none" when nothing), and the array
\* the validation loop goes over
LoadResponse(response, count) ==
  CASE response.kind = "raise" -> [error |-> "Exception", data |-> <<>>]
    [] response.kind = "empty" -> [error |-> "Exception", data |-> <<>>]
    [] response.kind = "text" -> [error |-> "JSONDecodeError", data |-> <<>>]
    [] response.kind = "truncated" -> [error |-> "JSONDecodeError", data |-> <<>>]
    [] response.kind = "object" -> [error |-> "ValueError", data |-> <<>>]
    [] OTHER -> [error |-> "none", data |-> Take(response.items, count)]

\* the validation loop over questions_data and the length test after it
BuildQuestions(data, topic, difficulty, count) ==
  LET questions == KeptQuestions(data, topic, difficulty, 1) IN
  IF \E i \in 1..Len(data) : Validate(data[i]) = "raise"
    THEN [error |-> "TypeError", questions |-> <<>>]
    ELSE IF Len(questions) >= count
           THEN [error |-> "none", questions |-> Take(questions, count)]
           ELSE [error |-> "ValueError", questions |-> <<>>]

\* one pass of the try block of generate_quiz_questions: the questions it
\* returns, or failed (any exception: empty response, JSONDecodeError, not
\* an array, TypeError, too few valid questions)
ParseAttempt(response, topic, difficulty, count) ==
  LET loaded == LoadResponse(response, count)
      built == BuildQuestions(loaded.data, topic, difficulty, count)
  IN IF loaded.error = "none" /\ built.error = "none"
       THEN [ok |-> TRUE, questions |-> built.questions]
       ELSE [ok |-> FALSE, questions |-> <<>>]

\* an except clause that handles JSONDecodeError only
CaughtJsonOnly(error) == error = "JSONDecodeError"

\* the except clauses of generate_quiz_questions: json.JSONDecodeError, then
\* Exception, which every exception of the try block derives from
Caught(error) ==
  \/ error = "JSONDecodeError"
  \/ error \in {"Exception", "ValueError", "TypeError", "JSONDecodeError"}

\* question_templates of _generate_basic_questions (non-ASCII signs spelled
\* out: x for the multiplication sign, ^2 for the superscript, pi)
question_templates(key) ==
  CASE key = "algebra" -> <<
         <<"What is a variable in algebra?",
           <<"A letter representing an unknown", "A constant number", "An operation", "A graph">>>>,
         <<"How do you solve x + 5 = 10?",
           <<"Subtract 5 from both sides", "Add 5 to both sides", "Multiply by 5", "Divide by 5">>>>,
         <<"What is a linear equation?",
           <<"An equation with degree 1", "An equation with degree 2", "A curved line", "A circle">>>>,
         <<"What does 'like terms' mean?",
           <<"Terms with same variables and powers", "Any two numbers", "Equal signs", "Multiplication terms">>>>,
         <<"What is the order of operations?",
           <<"PEMDAS/BODMAS", "Left to right always", "Addition first", "Random order">>>>>>
    [] key = "calculus" -> <<
         <<"What is a limit?",
           <<"Value a function approaches", "Maximum value", "Minimum value", "Average value">>>>,
         <<"What is a derivative?",
           <<"Rate of change", "Area under curve", "Maximum point", "Minimum point">>>>,
         <<"What is integration?",
           <<"Finding area under curve", "Finding slope", "Finding maximum", "Finding minimum">>>>,
         <<"What does continuity mean?",
           <<"No breaks in function", "Always increasing", "Always positive", "Has a maximum">>>>,
         <<"What is the fundamental theorem?",
           <<"Links derivatives and integrals", "States all functions continuous", "Proves limits exist", "Shows functions are smooth">>>>>>
    [] key = "geometry" -> <<
         <<"Sum of angles in a triangle?",
           <<"180 degrees", "360 degrees", "90 degrees", "270 degrees">>>>,
         <<"Area of a rectangle?",
           <<"length x width", "2(length + width)", "length + width", "length^2">>>>,
         <<"What is a right angle?",
           <<"90 degrees", "180 degrees", "45 degrees", "60 degrees">>>>,
         <<"What is the Pythagorean theorem?",
           <<"a^2 + b^2 = c^2", "a + b = c", "a x b = c", "a^2 = b^2 + c^2">>>>,
         <<"How many sides does a hexagon have?",
           <<"6", "5", "7", "8">>>>>>
    [] key = "trigonometry" -> <<
         <<"What is sine in a right triangle?",
           <<"opposite/hypotenuse", "adjacent/hypotenuse", "opposite/adjacent", "hypotenuse/opposite">>>>,
         <<"What is cosine in a right triangle?",
           <<"adjacent/hypotenuse", "opposite/hypotenuse", "opposite/adjacent", "hypotenuse/adjacent">>>>,
         <<"What is tangent in a right triangle?",
           <<"opposite/adjacent", "adjacent/opposite", "opposite/hypotenuse", "adjacent/hypotenuse">>>>,
         <<"What is the unit circle?",
           <<"Circle with radius 1", "Circle with radius 2", "Any circle", "Circle with diameter 1">>>>,
         <<"What is the period of sin(x)?",
           <<"2pi", "pi", "pi/2", "4pi">>>>>>

\* a lookup of the topic as it is written
TemplatesExact(topic) ==
  IF topic \in SubjectKeys THEN question_templates(topic)
                           ELSE question_templates("algebra")

\* question_templates.get(topic.lower(), question_templates['algebra'])
Templates(topic) ==
  IF \E k \in SubjectKeys : Chars(k) = Lower(Chars(topic))
    THEN question_templates(CHOOSE k \in SubjectKeys : Chars(k) = Lower(Chars(topic)))
    ELSE question_templates("algebra")

\* the n-th question (0-based) of _generate_basic_questions: the bank in
\* order, then the bank again with the "Advanced: " prefix; its uuid4 id is
\* modelled by its place
BasicQuestion(templates, topic, difficulty, n) ==
  LET template == templates[(n % Len(templates)) + 1] IN
  [ id |-> n + 1,
    question |-> IF n < Len(templates) THEN template[1]
                                       ELSE "Advanced: " \o template[1],
    options |-> template[2],
    correct_answer |-> template[2][1],
    topic |-> topic,
    difficulty_level |-> difficulty,
    resource_id |-> "" ]

\* ContentGeneratorAgent._generate_basic_questions
GenerateBasicQuestions(topic, difficulty, count) ==
  LET templates == Templates(topic) IN
  [n \in 1..count |-> BasicQuestion(templates, topic, difficulty, n - 1)]

VARIABLE synth   \* one call of generate_quiz_questions: position and locals

QuizTopics == {"algebra", "Geometry", "CALCULUS", "trigonometry", "physics",
               "Linear Equations"}
QuizDifficulties == {2, 5}
QuizCounts == 0..MaxCount

IdleSynth == [pc |-> "idle", topic |-> "", difficulty |-> 0, count |-> 0,
              retry_count |-> 0, calls |-> 0, questions_data |-> <<>>,
              questions |-> <<>>, source |-> "none"]

SynthInit == synth = IdleSynth

\* a call generate_quiz_questions(topic, difficulty, count)
SynthCall(topic, difficulty, count) ==
  /\ synth.pc = "idle"
  /\ synth' = [IdleSynth EXCEPT !.pc = "running", !.topic = topic,
                                !.difficulty = difficulty, !.count = count]

\* except clauses that sleep and go on without counting the failure
HandleUncounted(s, error) ==
  IF Caught(error)
    THEN [s EXCEPT !.pc = "running", !.questions_data = <<>>]
    ELSE [s EXCEPT !.pc = "raised", !.questions_data = <<>>]

\* what the except clauses make of an exception of the try block: the next
\* iteration, or the exception leaves generate_quiz_questions
Handle(s, error) ==
  IF Caught(error)
    THEN [s EXCEPT !.pc = "running", !.retry_count = @ + 1, !.questions_data = <<>>]
    ELSE [s EXCEPT !.pc = "raised", !.questions_data = <<>>]

\* one iteration of `while retry_count < max_retries`, first part: the
\* gateway call, the cleaning and parsing of its response, and
\* questions_data[:count]
SynthAttempt(response) ==
  /\ synth.pc = "running"
  /\ synth.retry_count < max_retries
  /\ LET called == [synth EXCEPT !.calls = @ + 1]
         r == LoadResponse(response, synth.count)
     IN synth' = IF r.error = "none"
                   THEN [called EXCEPT !.pc = "loaded", !.questions_data = r.data]
                   ELSE Handle(called, r.error)

\* second part: the validation loop; enough valid questions are returned,
\* too few are a ValueError
SynthValidate ==
  /\ synth.pc = "loaded"
  /\ LET r == BuildQuestions(synth.questions_data, synth.topic,
                             synth.difficulty, synth.count)
     IN synth' = IF r.error = "none"
                   THEN [synth EXCEPT !.pc = "returned", !.questions = r.questions,
                                      !.source = "gateway"]
                   ELSE Handle(synth, r.error)

\* "If all retries failed, generate simple questions"
SynthFallback ==
  /\ synth.pc = "running"
  /\ synth.retry_count >= max_retries
  /\ synth' = [synth EXCEPT
       !.pc = "returned",
       !.questions = GenerateBasicQuestions(synth.topic, synth.difficulty, synth.count),
       !.source = "fallback"]

SynthNext ==
  \/ \E topic \in QuizTopics : \E difficulty \in QuizDifficulties : \E count \in QuizCounts :
       SynthCall(topic, difficulty, count)
  \/ \E response \in Responses : SynthAttempt(response)
  \/ SynthValidate
  \/ SynthFallback

\* ------------------------------------------------------------------ evaluator
VARIABLE evaluator   \* one call of the EvaluatorAgent: position and locals

\* What GeminiClient.generate does for a feedback prompt: it raises, or
\* returns the empty string, blanks, or a sentence with or without blanks
\* around it.
FeedbackResponses ==
  {[kind |-> "raise", text |-> ""]}
    \cup {[kind |-> "text", text |-> t] : t \in {"", "  ", " Good work. ", "Good work."}}

\* the string of the characters that response.strip() leaves
Stripped(text) ==
  CHOOSE s \in {"", "Good work."} : Chars(s) = Strip(Chars(text))

\* a comparison of the answers as they are written
IsCorrectExact(user_answer, correct_answer) == user_answer = correct_answer

\* user_answer.strip().lower() == question.correct_answer.strip().lower()
IsCorrect(user_answer, correct_answer) ==
  Lower(Strip(Chars(user_answer))) = Lower(Strip(Chars(correct_answer)))

\* the feedback of evaluate_quiz_response: the stripped response, the short
\* sentence for a response that is empty, the long sentence for an exception
Feedback(response, is_correct, correct_answer) ==
  LET verdict == IF is_correct THEN "correct" ELSE "incorrect" IN
  IF response.kind = "raise"
    THEN "Your answer is " \o verdict \o ". The correct answer is "
           \o correct_answer \o "."
    ELSE IF response.text # "" THEN Stripped(response.text)
         ELSE "Your answer is " \o verdict \o "."

\* the dictionary evaluate_quiz_response returns
QuizResponseResult(question, is_correct, response) ==
  [ is_correct |-> is_correct,
    feedback |-> Feedback(response, is_correct, question.correct_answer),
    topic |-> question.topic,
    score |-> IF is_correct THEN 100 ELSE 0 ]

\* sum(r.get('score', 0) for r in quiz_results)
RECURSIVE TotalScore(_)
TotalScore(quiz_results) ==
  IF quiz_results = <<>> THEN 0
  ELSE Head(quiz_results).score + TotalScore(Tail(quiz_results))

\* the quotient rounded down
AverageFloored(total_score, n) == [num |-> total_score \div n, den |-> 1]

\* total_score / len(quiz_results), as the fraction num/den
Average(total_score, n) == [num |-> total_score, den |-> n]

\* average_score >= k
AtLeast(average_score, k) == average_score.num >= k * average_score.den

\* the places of the results that are correct, or that are not
Places(quiz_results, correct) ==
  {i \in 1..Len(quiz_results) : quiz_results[i].is_correct = correct}

\* list(set(weak_topics)) and list(set(strong_topics)), as sets
TopicSet(quiz_results, correct) ==
  {quiz_results[i].topic : i \in Places(quiz_results, correct)}

\* the recommendation of generate_overall_feedback
Recommendation(response, average_score) ==
  IF response.kind = "raise"
    THEN IF AtLeast(average_score, 70) THEN "Great job! Keep up the good work!"
                                       ELSE "Keep practicing to improve!"
    ELSE IF response.text # "" THEN Stripped(response.text)
         ELSE IF AtLeast(average_score, 70)
                THEN "Great job! Keep up the good work!"
                ELSE "Keep practicing to improve your understanding!"

\* what generate_overall_feedback returns for no results
NoQuizData ==
  [ average_score |-> [num |-> 0, den |-> 1],
    total_questions |-> 0,
    correct_answers |-> 0,
    weak_topics |-> {},
    strong_topics |-> {},
    recommendation |-> "No quiz data available" ]

\* what generate_overall_feedback returns for results
OverallResult(quiz_results, response) ==
  LET average_score == Average(TotalScore(quiz_results), Len(quiz_results)) IN
  [ average_score |-> average_score,
    total_questions |-> Len(quiz_results),
    correct_answers |-> Cardinality(Places(quiz_results, TRUE)),
    weak_topics |-> TopicSet(quiz_results, FALSE),
    strong_topics |-> TopicSet(quiz_results, TRUE),
    recommendation |-> Recommendation(response, average_score) ]

\* the questions and answers of the evaluator study
EvalQuestions ==
  [correct_answer : {"B", "x + 1"}, topic : {"algebra", "geometry"}]
UserAnswers == {"B", "b", " b ", "\tB\n", "A", "", "X + 1", "x+1"}

\* the per-question results a quiz's evaluation hands over
ResultKinds ==
  {[is_correct |-> c, topic |-> t, score |-> IF c THEN 100 ELSE 0] :
     c \in BOOLEAN, t \in {"algebra", "geometry"}}
ResultLists == SeqsUpTo(ResultKinds, MaxResults)

IdleEvaluator ==
  [ pc |-> "idle", op |-> "none", question |-> <<>>, user_answer |-> "",
    is_correct |-> FALSE, quiz_results |-> <<>>, response |-> <<>>,
    calls |-> 0, result |-> <<>> ]

EvaluatorInit == evaluator = IdleEvaluator

\* evaluate_quiz_response up to the gateway call: is_correct is settled
EvaluateCall(question, user_answer) ==
  /\ evaluator.pc = "idle"
  /\ evaluator' = [IdleEvaluator EXCEPT
       !.pc = "calling", !.op = "evaluate", !.question = question,
       !.user_answer = user_answer,
       !.is_correct = IsCorrect(user_answer, question.correct_answer)]

\* the gateway call of evaluate_quiz_response and the return
EvaluateReturn(response) ==
  /\ evaluator.pc = "calling"
  /\ evaluator.op = "evaluate"
  /\ evaluator' = [evaluator EXCEPT
       !.pc = "returned", !.response = response, !.calls = @ + 1,
       !.result = QuizResponseResult(evaluator.question, evaluator.is_correct,
                                     response)]

\* generate_overall_feedback up to the gateway call; no results are
\* answered at once
OverallCall(quiz_results) ==
  /\ evaluator.pc = "idle"
  /\ evaluator' =
       IF quiz_results = <<>>
         THEN [IdleEvaluator EXCEPT !.pc = "returned", !.op = "overall",
                                    !.result = NoQuizData]
         ELSE [IdleEvaluator EXCEPT !.pc = "calling", !.op = "overall",
                                    !.quiz_results = quiz_results]

\* the gateway call of generate_overall_feedback and the return
OverallReturn(response) ==
  /\ evaluator.pc = "calling"
  /\ evaluator.op = "overall"
  /\ evaluator' = [evaluator EXCEPT
       !.pc = "returned", !.response = response, !.calls = @ + 1,
       !.result = OverallResult(evaluator.quiz_results, response)]

EvaluatorNext ==
  \/ \E question \in EvalQuestions : \E user_answer \in UserAnswers :
       EvaluateCall(question, user_answer)
  \/ \E response \in FeedbackResponses : EvaluateReturn(response)
  \/ \E quiz_results \in ResultLists : OverallCall(quiz_results)
  \/ \E response \in FeedbackResponses : OverallReturn(response)

\* ----------------------------------------------------- fallback content bank
\* content_templates of LearningContentGenerator._generate_fallback_content:
\* per key and difficulty a title, a content (its first line stands for the
\* whole text), a summary and the objectives; the content of algebra 1
\* embeds the learning style
content_templates(key, learning_style) ==
  CASE key = "algebra" ->
         (1 :> [ title |-> "Introduction to Algebraic Variables",
             content |-> "Welcome to the world of algebra! This " \o learning_style
                         \o "-focused lesson will introduce you to one of the most fundamental concepts in mathematics: variables.",
             summary |-> "An introduction to algebraic variables, explaining what they are, why we use them, and how they work in basic mathematical operations.",
             objectives |-> <<"Understand what a variable represents",
                            "Identify variables in mathematical expressions",
                            "Apply variables to real-world situations">> ]) @@
         (2 :> [ title |-> "Working with Linear Equations",
             content |-> "Now that you understand variables, let's explore linear equations - one of the most important topics in algebra!",
             summary |-> "Learn to solve linear equations using balance principles, step-by-step methods, and real-world applications.",
             objectives |-> <<"Solve linear equations systematically",
                            "Apply linear equations to real problems",
                            "Check solutions for accuracy">> ]) @@
         (3 :> [ title |-> "Mastering Systems of Equations",
             content |-> "Welcome to systems of equations - where we solve multiple equations with multiple variables simultaneously!",
             summary |-> "Master three methods for solving systems of equations: substitution, elimination, and graphing, with real-world applications.",
             objectives |-> <<"Apply substitution method effectively",
                            "Use elimination to solve systems",
                            "Recognize and interpret different types of solutions">> ]) @@
         (4 :> [ title |-> "Understanding Quadratic Functions",
             content |-> "Welcome to quadratic functions - the curved world of algebra that opens doors to advanced mathematics!",
             summary |-> "Explore quadratic functions, their graphs (parabolas), key features, and multiple solution methods with real-world applications.",
             objectives |-> <<"Identify key features of parabolas",
                            "Solve quadratic equations using multiple methods",
                            "Apply quadratic functions to real-world problems">> ]) @@
         (5 :> [ title |-> "Advanced Polynomial Operations",
             content |-> "Master the advanced techniques for working with polynomials - the building blocks of higher mathematics!",
             summary |-> "Master advanced polynomial operations including multiplication, division, factoring, and finding zeros with real-world applications.",
             objectives |-> <<"Perform complex polynomial operations",
                            "Factor polynomials using multiple techniques",
                            "Find and interpret zeros of polynomial functions">> ])
    [] key = "geometry" ->
         (1 :> [ title |-> "Fundamentals of Geometric Shapes",
             content |-> "Welcome to geometry - the study of shapes, sizes, and spatial relationships!",
             summary |-> "Introduction to basic geometric concepts including points, lines, angles, and fundamental shapes with their properties.",
             objectives |-> <<"Identify and classify basic geometric shapes",
                            "Understand angle relationships and measurements",
                            "Apply geometric concepts to real-world situations">> ]) @@
         (2 :> [ title |-> "Exploring Angles, Lines, and Triangles",
             content |-> "Dive deeper into the fascinating relationships between angles, lines, and triangles!",
             summary |-> "Explore angle relationships, parallel line properties, and triangle classifications with practical applications.",
             objectives |-> <<"Apply angle relationships to solve problems",
                            "Classify triangles by sides and angles",
                            "Use triangle congruence rules effectively">> ]) @@
         (3 :> [ title |-> "Calculating Area and Perimeter",
             content |-> "Master the essential skills of measuring spaces and boundaries in geometry!",
             summary |-> "Learn to calculate area and perimeter for various shapes with real-world applications and problem-solving strategies.",
             objectives |-> <<"Apply area and perimeter formulas correctly",
                            "Solve problems involving composite figures",
                            "Use measurements for practical applications">> ]) @@
         (4 :> [ title |-> "Circle Geometry and Properties",
             content |-> "Explore the fascinating world of circles - one of geometry's most perfect and useful shapes!",
             summary |-> "Master circle properties, measurements, angles, and real-world applications with comprehensive problem-solving techniques.",
             objectives |-> <<"Calculate circle measurements accurately",
                            "Apply circle theorems to solve problems",
                            "Use circle geometry in practical situations">> ]) @@
         (5 :> [ title |-> "Three-Dimensional Shapes and Volume",
             content |-> "Enter the exciting world of 3D geometry where shapes have length, width, AND height!",
             summary |-> "Explore three-dimensional shapes, volume calculations, surface area, and real-world applications with comprehensive problem-solving methods.",
             objectives |-> <<"Calculate volumes of common 3D shapes",
                            "Find surface areas using multiple methods",
                            "Apply 3D geometry to practical problems">> ])
    [] key = "trigonometry" ->
         (1 :> [ title |-> "Introduction to Trigonometry",
             content |-> "Welcome to trigonometry - the mathematics of triangles and circular motion!",
             summary |-> "Introduction to trigonometric ratios, special triangles, and fundamental applications in right triangle geometry.",
             objectives |-> <<"Master the three basic trigonometric ratios",
                            "Solve right triangle problems using SOH CAH TOA",
                            "Apply trigonometry to real-world situations">> ])
    [] key = "calculus" ->
         (1 :> [ title |-> "Understanding Limits and Continuity",
             content |-> "Welcome to calculus - the mathematics of change and motion!",
             summary |-> "Master the fundamental concept of limits and continuity as the foundation for all calculus operations and applications.",
             objectives |-> <<"Evaluate limits using multiple techniques",
                            "Understand and identify continuity",
                            "Apply limit concepts to real-world problems">> ])

ContentKeys == {"algebra", "geometry", "trigonometry", "calculus"}

\* the characters of cs before its first whitespace
RECURSIVE UpToBlank(_)
UpToBlank(cs) ==
  IF cs = <<>> \/ Head(cs) \in Whitespace THEN <<>>
  ELSE <<Head(cs)>> \o UpToBlank(Tail(cs))

\* topic.lower().split()[0]
FirstWord(topic) == UpToBlank(LStrip(Lower(Chars(topic))))

\* content_templates.get(topic.lower().split()[0], content_templates['algebra'])
ContentTemplates(topic, learning_style) ==
  IF \E k \in ContentKeys : Chars(k) = FirstWord(topic)
    THEN content_templates(CHOOSE k \in ContentKeys : Chars(k) = FirstWord(topic),
                           learning_style)
    ELSE content_templates("algebra", learning_style)

\* templates.get(difficulty, templates[1])
TemplateData(templates, difficulty) ==
  IF difficulty \in DOMAIN templates THEN templates[difficulty] ELSE templates[1]

\* a fallback content whose duration grows with the number of the call
FallbackContentCounting(id, topic, resource_type, difficulty, learning_style) ==
  LET template_data == TemplateData(ContentTemplates(topic, learning_style), difficulty) IN
  [ id |-> id,
    origin |-> "fallback",
    title |-> template_data.title,
    type |-> resource_type,
    content |-> template_data.content,
    summary |-> template_data.summary,
    difficulty_level |-> difficulty,
    learning_style |-> learning_style,
    topic |-> topic,
    estimated_duration |-> 15 + id,
    learning_objectives |-> template_data.objectives ]

\* the LearningContent of _generate_fallback_content; id stands for the
\* uuid4 of the call
FallbackContent(id, topic, resource_type, difficulty, learning_style) ==
  LET template_data == TemplateData(ContentTemplates(topic, learning_style), difficulty) IN
  [ id |-> id,
    origin |-> "fallback",
    title |-> template_data.title,
    type |-> resource_type,
    content |-> template_data.content,
    summary |-> template_data.summary,
    difficulty_level |-> difficulty,
    learning_style |-> learning_style,
    topic |-> topic,
    estimated_duration |-> 15,
    learning_objectives |-> template_data.objectives ]

\* the LearningContent that _generate_single_content builds from the JSON
\* object {"title": "T", "content": "C", "summary": "S",
\* "learning_objectives": ["O"]} or from the object {"title": "T"}
ParsedContent(origin, topic, resource_type, difficulty, learning_style) ==
  [ id |-> 1,
    origin |-> origin,
    title |-> "T",
    type |-> resource_type,
    content |-> IF origin = "generated" THEN "C" ELSE "",
    summary |-> IF origin = "generated" THEN "S" ELSE "",
    difficulty_level |-> difficulty,
    learning_style |-> learning_style,
    topic |-> topic,
    estimated_duration |-> 15,
    learning_objectives |-> IF origin = "generated" THEN <<"O">> ELSE <<>> ]

\* ------------------------------------------------- content synthesizer call
VARIABLE content   \* one call of _generate_single_content: position and locals

\* the arguments of the content synthesizer study
ContentTopics == {"Linear Equations", "Circle Geometry", "algebra", "physics", "", "  ",
                  "Geometry", "trigonometry"}
ResourceTypes == {"lesson", "visual_guide"}
ContentDifficulties == {1, 3, 5}
LearningStyles == {"visual", "kinesthetic"}

\* the LearningContent that _generate_single_content or
\* _generate_fallback_content builds
LearningContent(origin, topic, resource_type, difficulty, learning_style) ==
  IF origin = "fallback"
    THEN FallbackContent(1, topic, resource_type, difficulty, learning_style)
    ELSE ParsedContent(origin, topic, resource_type, difficulty, learning_style)

IdleContent ==
  [ pc |-> "idle", topic |-> "", resource_type |-> "", difficulty |-> 0,
    learning_style |-> "", outcome |-> "none", result |-> <<>> ]

ContentInit == content = IdleContent

\* a call _generate_single_content(topic, resource_type, difficulty,
\* learning_style, ...), up to the gateway call
ContentCall(topic, resource_type, difficulty, learning_style) ==
  /\ content.pc = "idle"
  /\ content' = [IdleContent EXCEPT
       !.pc = "calling", !.topic = topic, !.resource_type = resource_type,
       !.difficulty = difficulty, !.learning_style = learning_style]

\* the gateway call and what follows it: the content is returned, or the
\* exception of the fallback leaves the call
ContentReturn(outcome) ==
  /\ content.pc = "calling"
  /\ LET origin == GenerateSingleContent(outcome, content.topic) IN
     content' = IF origin = "raise"
                  THEN [content EXCEPT !.pc = "raised", !.outcome = outcome]
                  ELSE [content EXCEPT
                         !.pc = "returned", !.outcome = outcome,
                         !.result = LearningContent(origin, content.topic,
                                      content.resource_type, content.difficulty,
                                      content.learning_style)]

ContentNext ==
  \/ \E topic \in ContentTopics : \E resource_type \in ResourceTypes :
       \E difficulty \in ContentDifficulties : \E learning_style \in LearningStyles :
         ContentCall(topic, resource_type, difficulty, learning_style)
  \/ \E outcome \in GatewayOutcomes : ContentReturn(outcome)

\* ------------------------------------------------- fallback generator calls
VARIABLE fallback_calls   \* the invocations of _generate_fallback_content so
                          \* far: arguments and returned content

FallbackTopics == {"algebra", "Geometry", "Linear Equations", "trigonometry"}
FallbackDifficulties == {1, 3, 5}

FallbackInit == fallback_calls = <<>>

\* one invocation of _generate_fallback_content; its uuid4 is the number of
\* the invocation
FallbackCall(topic, resource_type, difficulty, learning_style) ==
  /\ Len(fallback_calls) < MaxFallbackCalls
  /\ fallback_calls' = Append(fallback_calls,
       [ topic |-> topic, resource_type |-> resource_type,
         difficulty |-> difficulty, learning_style |-> learning_style,
         result |-> FallbackContent(Len(fallback_calls) + 1, topic, resource_type,
                                    difficulty, learning_style) ])

FallbackNext ==
  \E topic \in FallbackTopics : \E resource_type \in ResourceTypes :
    \E difficulty \in FallbackDifficulties : \E learning_style \in LearningStyles :
      FallbackCall(topic, resource_type, difficulty, learning_style)

\* ------------------------------------------------------ learning sequence
VARIABLE sequence   \* one call of generate_learning_sequence: position, the
                    \* arguments, the loop index i and learning_contents

SequenceTopics == {"algebra", "Linear Equations"}
SequenceStyles == {"visual", "kinesthetic", "mixed"}
SequenceLevels == {1, 4, 5}

\* LearningContentGenerator._get_resource_types_for_style
GetResourceTypesForStyle(learning_style) ==
  CASE learning_style = "visual" ->
         <<"infographic_lesson", "diagram_tutorial", "visual_guide", "chart_explanation">>
    [] learning_style = "auditory" ->
         <<"audio_lesson", "discussion_guide", "verbal_explanation", "story_based_lesson">>
    [] learning_style = "reading" ->
         <<"text_lesson", "article", "step_by_step_guide", "detailed_explanation">>
    [] learning_style = "kinesthetic" ->
         <<"interactive_exercise", "hands_on_activity", "practice_problems", "simulation">>
    [] OTHER -> <<"lesson", "tutorial", "guide", "practice">>

\* a progression that is not capped
SequenceDifficultyUncapped(knowledge_level, i) == knowledge_level + (i \div 2)

\* difficulty = min(5, learner_profile.knowledge_level + (i // 2))
SequenceDifficulty(knowledge_level, i) ==
  Min(MaxDifficulty, knowledge_level + (i \div 2))

\* resource_type = resource_types[i % len(resource_types)]
SequenceType(learning_style, i) ==
  LET resource_types == GetResourceTypesForStyle(learning_style) IN
  resource_types[(i % Len(resource_types)) + 1]

IdleSequence ==
  [ pc |-> "idle", knowledge_level |-> 0, learning_style |-> "", topic |-> "",
    num_resources |-> 0, i |-> 0, learning_contents |-> <<>> ]

SequenceInit == sequence = IdleSequence

\* a call generate_learning_sequence(learner_profile, topic, num_resources),
\* up to the loop
SequenceCall(knowledge_level, learning_style, topic, num_resources) ==
  /\ sequence.pc = "idle"
  /\ sequence' = [IdleSequence EXCEPT
       !.pc = "loop", !.knowledge_level = knowledge_level,
       !.learning_style = learning_style, !.topic = topic,
       !.num_resources = num_resources]

\* one iteration of the loop: a call of _generate_single_content, whose
\* gateway call has the given outcome, and the append; the exception of the
\* fallback leaves generate_learning_sequence
SequenceStep(outcome) ==
  /\ sequence.pc = "loop"
  /\ sequence.i < sequence.num_resources
  /\ LET origin == GenerateSingleContent(outcome, sequence.topic) IN
     sequence' =
       IF origin = "raise"
         THEN [sequence EXCEPT !.pc = "raised"]
         ELSE [sequence EXCEPT
                !.i = @ + 1,
                !.learning_contents = Append(@,
                   [LearningContent(origin, sequence.topic,
                       SequenceType(sequence.learning_style, sequence.i),
                       SequenceDifficulty(sequence.knowledge_level, sequence.i),
                       sequence.learning_style)
                     EXCEPT !.id = sequence.i + 1])]

\* the loop is over: return learning_contents
SequenceReturn ==
  /\ sequence.pc = "loop"
  /\ sequence.i >= sequence.num_resources
  /\ sequence' = [sequence EXCEPT !.pc = "returned"]

SequenceNext ==
  \/ \E knowledge_level \in SequenceLevels : \E learning_style \in SequenceStyles :
       \E topic \in SequenceTopics : \E num_resources \in 0..MaxResources :
         SequenceCall(knowledge_level, learning_style, topic, num_resources)
  \/ \E outcome \in GatewayOutcomes : SequenceStep(outcome)
  \/ SequenceReturn

\* -------------------------------------------------- planner topic sequence
VARIABLE planner   \* one call of PathGeneratorAgent._generate_topic_sequence:
                   \* the profile, the gateway's response and what it returned

\* A response of the gateway as a sequence of tokens: an opening bracket, a
\* closing bracket, a quoted string with the comma it needs ("T"), and text
\* that is no JSON ("x"). The string at place k of the response is topic k.
ResponseTokens == {"[", "]", "T", "x"}
TopicResponses(n) == [1..n -> ResponseTokens]

PlannerProfiles ==
  { [subject |-> "algebra", weak_areas |-> <<"linear equations">>],
    [subject |-> "physics", weak_areas |-> <<>>] }

\* the places of the opening brackets that a closing bracket follows
Openings(response) ==
  { i \in 1..Len(response) :
      /\ response[i] = "["
      /\ \E j \in (i + 1)..Len(response) : response[j] = "]" }

\* re.search(r'\[.*?\]', response, re.DOTALL): the leftmost opening bracket
\* that a closing bracket follows and the first closing bracket after it
\* (<<>> when there is no match)
JsonMatch(response) ==
  IF Openings(response) = {} THEN <<>>
  ELSE LET i == CHOOSE a \in Openings(response) : \A b \in Openings(response) : a <= b
           j == CHOOSE a \in (i + 1)..Len(response) :
                  /\ response[a] = "]"
                  /\ \A b \in (i + 1)..(a - 1) : response[b] # "]"
       IN <<i, j>>

\* json.loads of the matched span raises unless strings alone stand between
\* the brackets
LoadsRaises(response, span) ==
  \E k \in (span[1] + 1)..(span[2] - 1) : response[k] # "T"

\* the list json.loads returns: the topics between the brackets
RECURSIVE LoadedTopics(_, _, _)
LoadedTopics(response, k, last) ==
  IF k > last THEN <<>>
  ELSE <<k>> \o LoadedTopics(response, k + 1, last)

\* a fallback planner that ignores the weak areas
GetFallbackTopicsUnprioritized(subject, weak_areas) == Take(BaseTopics(subject), 5)

\* PathGeneratorAgent._get_fallback_topics
GetFallbackTopics(subject, weak_areas) ==
  LET base == BaseTopics(subject) IN
  IF weak_areas # <<>>
    THEN Take(AppendRemaining(Prioritize(<<>>, weak_areas, base, 1), base, 1), 5)
    ELSE Take(base, 5)

\* PathGeneratorAgent._generate_topic_sequence with the gateway raising
\* (raised) or answering response: where the topics come from and the topics;
\* fallback_topics is what _get_fallback_topics gives for the profile
GenerateTopicSequence(fallback_topics, raised, response) ==
  LET fallback == [source |-> "fallback", topics |-> fallback_topics]
      span == JsonMatch(response)
  IN IF raised THEN fallback
     ELSE IF span = <<>> THEN fallback
     ELSE IF LoadsRaises(response, span) THEN fallback
     ELSE LET topics == LoadedTopics(response, span[1] + 1, span[2] - 1) IN
          IF Len(topics) >= 3
            THEN [source |-> "gateway", topics |-> Take(topics, 5)]
            ELSE fallback

IdlePlanner ==
  [ pc |-> "idle", subject |-> "", weak_areas |-> <<>>, fallback_topics |-> <<>>,
    raised |-> FALSE, response |-> <<>>, source |-> "none", topics |-> <<>> ]

PlannerInit == planner = IdlePlanner

\* a call _generate_topic_sequence(learner_profile), up to the gateway call;
\* the list _get_fallback_topics gives for the profile is worked out here,
\* once for the call
TopicSequenceCall(profile) ==
  /\ planner.pc = "idle"
  /\ planner' = [IdlePlanner EXCEPT
       !.pc = "calling", !.subject = profile.subject,
       !.weak_areas = profile.weak_areas,
       !.fallback_topics = GetFallbackTopics(profile.subject, profile.weak_areas)]

\* the gateway call and what follows it
TopicSequenceReturn(raised, response) ==
  /\ planner.pc = "calling"
  /\ LET returned == GenerateTopicSequence(planner.fallback_topics, raised, response) IN
     planner' = [planner EXCEPT
       !.pc = "returned", !.raised = raised, !.response = response,
       !.source = returned.source, !.topics = returned.topics]

PlannerNext ==
  \/ \E profile \in PlannerProfiles : TopicSequenceCall(profile)
  \/ /\ planner.pc = "calling"
     /\ \E n \in 0..MaxTokens : \E response \in TopicResponses(n) :
          TopicSequenceReturn(FALSE, response)
  \/ TopicSequenceReturn(TRUE, <<>>)

\* ----------------------------------------------------- eager path generation
VARIABLE eager   \* one call of generate_learning_path_with_content: position,
                 \* the profile, topics, the loop indices, all_resource_ids
                 \* and the documents it inserted into db.learning_resources

\* what _generate_topic_sequence can return: the canonical list of the
\* subject, or the gateway's array, whose entries are any strings
EagerTopicLists(profile) ==
  { GetFallbackTopics(profile.subject, profile.weak_areas),
    <<"algebra", "", "Geometry">>,
    <<"Linear Equations", "Circle Geometry", "trigonometry">> }

\* num_resources=2
EagerResources == 2

\* path_generator.py imports json, re, typing and datetime but not uuid: the
\* name uuid is not defined at line 183
UuidDefined == FALSE

IdleEager ==
  [ pc |-> "idle", subject |-> "", weak_areas |-> <<>>, topics |-> <<>>,
    t |-> 0, pending |-> 0, all_resource_ids |-> <<>>, stored |-> <<>>,
    result |-> <<>>, error |-> "none" ]

EagerInit == eager = IdleEager

\* a call generate_learning_path_with_content(learner_profile, db), through
\* _generate_topic_sequence
EagerCall(profile, topics) ==
  /\ eager.pc = "idle"
  /\ eager' = [IdleEager EXCEPT
       !.pc = "topic", !.subject = profile.subject,
       !.weak_areas = profile.weak_areas, !.topics = topics, !.t = 1]

\* generate_learning_sequence for the next topic, the gateway answering its
\* two calls with o1 and o2: two contents wait to be saved, or the exception
\* of the fallback content reaches the except clause
EagerSequence(o1, o2) ==
  /\ eager.pc = "topic"
  /\ eager.t <= Len(eager.topics)
  /\ LET topic == eager.topics[eager.t] IN
     eager' =
       IF GenerateSingleContent(o1, topic) = "raise"
            \/ GenerateSingleContent(o2, topic) = "raise"
         THEN [eager EXCEPT !.pc = "except", !.error = "IndexError"]
         ELSE [eager EXCEPT !.pc = "insert", !.pending = EagerResources]

\* db.learning_resources.insert_one(resource_doc) of the next content, which
\* succeeds or raises, and all_resource_ids.append
EagerInsert(ok) ==
  /\ eager.pc = "insert"
  /\ eager' =
       IF ~ok THEN [eager EXCEPT !.pc = "except", !.error = "store"]
       ELSE LET id == Len(eager.stored) + 1 IN
            [eager EXCEPT
              !.stored = Append(@, [id |-> id, status |-> "ready",
                                    topic |-> eager.topics[eager.t]]),
              !.all_resource_ids = Append(@, id),
              !.pending = @ - 1,
              !.pc = IF eager.pending = 1 THEN "topic" ELSE "insert",
              !.t = IF eager.pending = 1 THEN @ + 1 ELSE @]

\* the loop over the topics is over: return all_resource_ids
EagerReturn ==
  /\ eager.pc = "topic"
  /\ eager.t > Len(eager.topics)
  /\ eager' = [eager EXCEPT !.pc = "returned", !.result = eager.all_resource_ids]

\* the except clause: return self._generate_fallback_path(...), which
\* evaluates uuid.uuid4() in the first round of its loop
EagerFallbackPath ==
  /\ eager.pc = "except"
  /\ LET topics == GetFallbackTopics(eager.subject, eager.weak_areas) IN
     eager' =
       IF topics # <<>> /\ ~UuidDefined
         THEN [eager EXCEPT !.pc = "raised", !.error = "NameError"]
         ELSE [eager EXCEPT !.pc = "returned", !.result = <<>>]

EagerNext ==
  \/ \E profile \in PlannerProfiles : \E topics \in EagerTopicLists(profile) :
       EagerCall(profile, topics)
  \/ \E o1, o2 \in GatewayOutcomes : EagerSequence(o1, o2)
  \/ \E ok \in BOOLEAN : EagerInsert(ok)
  \/ EagerReturn
  \/ EagerFallbackPath

\* ------------------------------------------------- pretests and read routes
VARIABLES
  pretests,   \* db.pretests: the pretest documents, in order of insertion
  reply       \* the response to the last request of the routes below: route,
              \* the id in its URL, HTTP status, 'success', and the number of
              \* gateway calls made while serving it

\* count=5 in conduct_pretest
PretestCount == 5

NoReply == [route |-> "none", id |-> 0, status |-> 0, success |-> FALSE, calls |-> 0]

Reply(route, id, status, calls) ==
  [route |-> route, id |-> id, status |-> status, success |-> status = 200,
   calls |-> calls]

RoutesInit ==
  /\ pretests = <<>>
  /\ reply = NoReply

\* conduct_pretest: five questions from the quiz synthesizer, which calls
\* the gateway up to max_retries times, then db.pretests.insert_one; the
\* learner id is not looked up
ConductPretest(learner_id, calls) ==
  /\ Len(pretests) < MaxPretests
  /\ pretests' = Append(pretests, [id |-> Len(pretests) + 1,
                                   learner_id |-> learner_id,
                                   questions |-> PretestCount,
                                   status |-> "active"])
  /\ reply' = Reply("conduct_pretest", learner_id, 200, calls)
  /\ UNCHANGED <<pipeline_vars, quiz_vars>>

\* submit_pretest: 404 for an id db.pretests lacks; otherwise one evaluation
\* per question and the overall feedback, then update_one with the results
\* and status 'completed'
SubmitPretest(pretest_id) ==
  /\ IF pretest_id \in DOMAIN pretests
       THEN /\ pretests' = [pretests EXCEPT ![pretest_id].status = "completed"]
            /\ reply' = Reply("submit_pretest", pretest_id, 200,
                              pretests[pretest_id].questions + 1)
       ELSE /\ reply' = Reply("submit_pretest", pretest_id, 404, 0)
            /\ UNCHANGED pretests
  /\ UNCHANGED <<pipeline_vars, quiz_vars>>

\* a handler that stores the submission before it looks the quiz up
SubmitQuizAbsentRecording(quiz_id) ==
  /\ quiz_id \notin DOMAIN quizzes
  /\ quiz_submissions < MaxSubmissions
  /\ quiz_submissions' = quiz_submissions + 1
  /\ reply' = Reply("submit_quiz", quiz_id, 404, 0)
  /\ UNCHANGED <<pipeline_vars, quizzes, submit, pretests>>

\* submit_quiz for an id db.quizzes lacks: 404
SubmitQuizAbsent(quiz_id) ==
  /\ quiz_id \notin DOMAIN quizzes
  /\ reply' = Reply("submit_quiz", quiz_id, 404, 0)
  /\ UNCHANGED <<pipeline_vars, quiz_vars, pretests>>

\* get_learning_path and get_learner_progress: 404 without the profile, 404
\* without the path, otherwise the data of the path
ReadPath(route, learner_id) ==
  /\ reply' = IF learner_id \notin DOMAIN learner_profiles
                THEN Reply(route, learner_id, 404, 0)
              ELSE IF ~HasPath(learner_id)
                THEN Reply(route, learner_id, 404, 0)
              ELSE Reply(route, learner_id, 200, 0)
  /\ UNCHANGED <<pipeline_vars, quiz_vars, pretests>>

\* get_resource: 404 for an id db.learning_resources lacks
GetResource(resource_id) ==
  /\ reply' = IF resource_id \notin DOMAIN learning_resources
                THEN Reply("get_resource", resource_id, 404, 0)
                ELSE Reply("get_resource", resource_id, 200, 0)
  /\ UNCHANGED <<pipeline_vars, quiz_vars, pretests>>

RoutesNext ==
  \/ \E learner_id \in {1, UnknownId} : \E calls \in 1..max_retries :
       ConductPretest(learner_id, calls)
  \/ \E pretest_id \in 1..(MaxPretests + 1) : SubmitPretest(pretest_id)
  \/ \E quiz_id \in 1..(MaxQuizzes + 1) : SubmitQuizAbsent(quiz_id)
  \/ \E learner_id \in {1, UnknownId} :
       \E route \in {"get_learning_path", "get_learner_progress"} :
         ReadPath(route, learner_id)
  \/ \E resource_id \in {1, UnknownId} : GetResource(resource_id)

\* ------------------------------------------------------------ topic planners
VARIABLE topic_calls   \* one pair of calls, _get_quick_topics and
                       \* _get_fallback_topics on the same arguments: the
                       \* arguments and what each call returned so far

\* the subjects and weak-area lists the two functions are called with
TopicSubjects == {"algebra", "Geometry", "CALCULUS", "trigonometry", "physics"}
TopicWeakAreas ==
  { <<>>, <<"linear equations">>, <<"Circle", "angles">>, <<"angles", "Circle">>,
    <<"">>, <<"tion", "Linear">>, <<"Linear", "tion">>, <<"xyz">> }

\* a result not yet returned
NotReturned == <<"-">>

IdleTopicCalls ==
  [ pc |-> "idle", subject |-> "", weak_areas |-> <<>>,
    quick |-> NotReturned, fallback |-> NotReturned ]

TopicCallsInit == topic_calls = IdleTopicCalls

\* the arguments of the next pair of calls
TopicsCall(subject, weak_areas) ==
  /\ topic_calls.pc \in {"idle", "returned"}
  /\ topic_calls' = [IdleTopicCalls EXCEPT
       !.pc = "called", !.subject = subject, !.weak_areas = weak_areas]

\* AgentOrchestrator._get_quick_topics(subject, weak_areas) returns
QuickTopicsReturn ==
  /\ topic_calls.pc = "called"
  /\ topic_calls.quick = NotReturned
  /\ LET topics == GetQuickTopics(topic_calls.subject, topic_calls.weak_areas) IN
     topic_calls' = [topic_calls EXCEPT
       !.quick = topics,
       !.pc = IF topic_calls.fallback = NotReturned THEN "called" ELSE "returned"]

\* PathGeneratorAgent._get_fallback_topics(subject, weak_areas) returns
FallbackTopicsReturn ==
  /\ topic_calls.pc = "called"
  /\ topic_calls.fallback = NotReturned
  /\ LET topics == GetFallbackTopics(topic_calls.subject, topic_calls.weak_areas) IN
     topic_calls' = [topic_calls EXCEPT
       !.fallback = topics,
       !.pc = IF topic_calls.quick = NotReturned THEN "called" ELSE "returned"]

TopicCallsNext ==
  \/ \E subject \in TopicSubjects : \E weak_areas \in TopicWeakAreas :
       TopicsCall(subject, weak_areas)
  \/ QuickTopicsReturn
  \/ FallbackTopicsReturn

\* ---------------------------------------------------------- specifications
vars == <<learner_profiles, learning_resources, learning_paths, intake, task,
          threads, writes, gateway, quizzes, quiz_submissions, submit, synth,
          evaluator, content, fallback_calls, sequence, planner, eager,
          pretests, reply,
          topic_calls>>

Init == PipelineInit /\ QuizInit /\ SynthInit /\ EvaluatorInit /\ ContentInit
        /\ FallbackInit /\ SequenceInit /\ PlannerInit /\ EagerInit /\ RoutesInit
        /\ TopicCallsInit

\* the steps of the intakes of the learners in L with request bodies from D
IntakeNext(L, D) ==
  \/ \E l \in L : \E data \in D : IntakeProfile(l, data)
  \/ \E l \in L : IntakeResource(l)
  \/ \E l \in L : IntakePath(l)
  \/ \E l \in L : IntakeSpawn(l)

\* the steps of the background tasks of the learners in L
BackgroundNext(L) ==
  \/ \E l \in L : BgStart(l)
  \/ \E l \in L : BgFind(l)
  \/ \E l \in L : \E outcome \in GatewayOutcomes : BgUpdate(l, outcome)

\* quiz requests for the resources of the learners in L at the places in I
QuizCreateNext(L, I) == \E l \in L : \E i \in I : GetResourceQuiz(ResourceId(l, i))

\* quiz submissions naming a learner id in L or an unknown one
SubmitNext(L) ==
  \/ \E s \in Submitters : \E q \in 1..MaxQuizzes : \E l \in L \cup {UnknownId} :
       \E c \in 0..ResourceQuizCount : SubmitQuiz(s, q, l, c)
  \/ \E s \in Submitters : SubmitWritePath(s)

\* The whole system: concurrent intakes, their background tasks, quiz
\* creation and quiz submissions, and the quiz synthesizer.
Next ==
  \/ (IntakeNext(Learners, ProfileData) \/ BackgroundNext(Learners))
       /\ UNCHANGED <<quiz_vars, synth, evaluator, content, fallback_calls, sequence, planner, eager, pretests, reply, topic_calls>>
  \/ (QuizCreateNext(Learners, 1..SkeletonSize) \/ SubmitNext(Learners)) /\ UNCHANGED <<synth, evaluator, content, fallback_calls, sequence, planner, eager, pretests, reply, topic_calls>>
  \/ SynthNext /\ UNCHANGED <<pipeline_vars, quiz_vars, evaluator, content, fallback_calls, sequence, planner, eager, pretests, reply, topic_calls>>
  \/ EvaluatorNext /\ UNCHANGED <<pipeline_vars, quiz_vars, synth, content, fallback_calls, sequence, planner, eager, pretests, reply, topic_calls>>
  \/ ContentNext /\ UNCHANGED <<pipeline_vars, quiz_vars, synth, evaluator, fallback_calls, sequence, planner, eager, pretests, reply, topic_calls>>
  \/ FallbackNext /\ UNCHANGED <<pipeline_vars, quiz_vars, synth, evaluator, content, sequence, planner, eager, pretests, reply, topic_calls>>
  \/ SequenceNext /\ UNCHANGED <<pipeline_vars, quiz_vars, synth, evaluator, content, fallback_calls, planner, eager, pretests, reply, topic_calls>>
  \/ PlannerNext /\ UNCHANGED <<pipeline_vars, quiz_vars, synth, evaluator, content, fallback_calls, sequence, eager, pretests, reply, topic_calls>>
  \/ EagerNext /\ UNCHANGED <<pipeline_vars, quiz_vars, synth, evaluator, content, fallback_calls, sequence, planner, pretests, reply, topic_calls>>
  \/ RoutesNext /\ UNCHANGED <<synth, evaluator, content, fallback_calls, sequence, planner, eager, topic_calls>>
  \/ (\E l \in Learners : BgStoreError(l))
       /\ UNCHANGED <<quiz_vars, synth, evaluator, content, fallback_calls, sequence, planner, eager, pretests, reply, topic_calls>>
  \/ TopicCallsNext /\ UNCHANGED <<pipeline_vars, quiz_vars, synth, evaluator, content, fallback_calls, sequence, planner, eager, pretests, reply>>

Spec == Init /\ [][Next]_vars

\* Materialization: concurrent intakes and their background tasks.
PipelineNext ==
  (IntakeNext(Learners, ProfileData) \/ BackgroundNext(Learners))
    /\ UNCHANGED <<quiz_vars, synth, evaluator, content, fallback_calls, sequence, planner, eager, pretests, reply, topic_calls>>

SpecPipeline == Init /\ [][PipelineNext]_vars

\* The scheduler runs every started thread, and every gateway call returns
\* or fails.
PipelineFairness ==
  \A l \in Learners :
    /\ WF_vars(BgStart(l) /\ UNCHANGED <<quiz_vars, synth, evaluator, content, fallback_calls, sequence, planner, eager, pretests, reply, topic_calls>>)
    /\ WF_vars(BgFind(l) /\ UNCHANGED <<quiz_vars, synth, evaluator, content, fallback_calls, sequence, planner, eager, pretests, reply, topic_calls>>)
    /\ WF_vars((\E outcome \in GatewayOutcomes : BgUpdate(l, outcome))
                 /\ UNCHANGED <<quiz_vars, synth, evaluator, content, fallback_calls, sequence, planner, eager, pretests, reply, topic_calls>>)

FairPipeline == SpecPipeline /\ PipelineFairness

\* the resource a path starts with
FirstPlace == {1}

\* The operations that read or write db.learning_resources: concurrent
\* intakes, their background tasks, and quiz requests for the first resource
\* of each path.
ResourcesNext ==
  \/ PipelineNext
  \/ QuizCreateNext(Learners, FirstPlace) /\ UNCHANGED <<synth, evaluator, content, fallback_calls, sequence, planner, eager, pretests, reply, topic_calls>>

SpecResources == Init /\ [][ResourcesNext]_vars

\* One intake with every request body, and its background task.
OneLearner == {1}

IntakeStudyNext ==
  (IntakeNext(OneLearner, WideProfileData) \/ BackgroundNext(OneLearner))
    /\ UNCHANGED <<quiz_vars, synth, evaluator, content, fallback_calls, sequence, planner, eager, pretests, reply, topic_calls>>

SpecIntake == Init /\ [][IntakeStudyNext]_vars

\* Concurrent intakes and their background tasks over a store that may fail
\* under a task, with quiz requests for the first resource of the first path.
DetachedNext ==
  \/ PipelineNext
  \/ (\E l \in Learners : BgStoreError(l))
       /\ UNCHANGED <<quiz_vars, synth, evaluator, content, fallback_calls, sequence, planner, eager, pretests, reply, topic_calls>>
  \/ QuizCreateNext(OneLearner, FirstPlace) /\ UNCHANGED <<synth, evaluator, content, fallback_calls, sequence, planner, eager, pretests, reply, topic_calls>>

SpecDetached == Init /\ [][DetachedNext]_vars

\* the first and the last resource of a path
QuizzedPlaces == {1, SkeletonSize}

\* Advancement along one learner's path: the intake that creates the path,
\* quiz requests for its first and its last resource, and concurrent
\* submissions naming that learner or an unknown one.
AdvanceNext ==
  \/ IntakeNext(OneLearner, ProfileData) /\ UNCHANGED <<quiz_vars, synth, evaluator, content, fallback_calls, sequence, planner, eager, pretests, reply, topic_calls>>
  \/ (QuizCreateNext(OneLearner, QuizzedPlaces) \/ SubmitNext(OneLearner)) /\ UNCHANGED <<synth, evaluator, content, fallback_calls, sequence, planner, eager, pretests, reply, topic_calls>>

SpecAdvance == Init /\ [][AdvanceNext]_vars

\* One call of the quiz synthesizer with every gateway behaviour.
SpecQuiz == Init /\ [][SynthNext /\ UNCHANGED <<pipeline_vars, quiz_vars, evaluator, content, fallback_calls, sequence, planner, eager, pretests, reply, topic_calls>>]_vars

\* One call of the quiz synthesizer with the gateway unreachable: every
\* attempt raises.
Unreachable == [kind |-> "raise", items |-> <<>>]

OfflineNext ==
  \/ \E topic \in QuizTopics : \E difficulty \in QuizDifficulties : \E count \in QuizCounts :
       SynthCall(topic, difficulty, count)
  \/ SynthAttempt(Unreachable)
  \/ SynthFallback

SpecQuizOffline == Init /\ [][OfflineNext /\ UNCHANGED <<pipeline_vars, quiz_vars, evaluator, content, fallback_calls, sequence, planner, eager, pretests, reply, topic_calls>>]_vars

\* One call of the evaluator with every gateway behaviour.
SpecEvaluate ==
  Init /\ [][EvaluatorNext /\ UNCHANGED <<pipeline_vars, quiz_vars, synth, content, fallback_calls, sequence, planner, eager, pretests, reply, topic_calls>>]_vars

\* One call of the content synthesizer with every gateway behaviour.
SpecContent ==
  Init /\ [][ContentNext /\ UNCHANGED <<pipeline_vars, quiz_vars, synth, evaluator, fallback_calls, sequence, planner, eager, pretests, reply, topic_calls>>]_vars

\* Invocations of the fallback content generator, one after the other.
SpecFallback ==
  Init /\ [][FallbackNext /\ UNCHANGED <<pipeline_vars, quiz_vars, synth, evaluator, content, sequence, planner, eager, pretests, reply, topic_calls>>]_vars

\* Calls of generate_learning_sequence, one after the other.
SpecSequence ==
  Init /\ [][(SequenceNext) /\ UNCHANGED <<pipeline_vars, quiz_vars, synth, evaluator, content, fallback_calls, planner, eager, pretests, reply, topic_calls>>]_vars

\* Calls of the planner's _generate_topic_sequence.
SpecPlanner ==
  Init /\ [][(PlannerNext) /\ UNCHANGED <<pipeline_vars, quiz_vars, synth, evaluator, content, fallback_calls, sequence, eager, pretests, reply, topic_calls>>]_vars

\* Calls of generate_learning_path_with_content: the gateway and the store may fail at any call.
SpecEager ==
  Init /\ [][(EagerNext) /\ UNCHANGED <<pipeline_vars, quiz_vars, synth, evaluator, content, fallback_calls, sequence, planner, pretests, reply, topic_calls>>]_vars

\* One intake, quiz requests for the first resource of its path, pretests,
\* and submissions and reads by id.
RoutesStudyNext ==
  \/ IntakeNext(OneLearner, ProfileData) /\ UNCHANGED <<quiz_vars, synth, evaluator, content, fallback_calls, sequence, planner, eager, pretests, reply, topic_calls>>
  \/ QuizCreateNext(OneLearner, FirstPlace) /\ UNCHANGED <<synth, evaluator, content, fallback_calls, sequence, planner, eager, pretests, reply, topic_calls>>
  \/ RoutesNext /\ UNCHANGED <<synth, evaluator, content, fallback_calls, sequence, planner, eager, topic_calls>>

SpecRoutes == Init /\ [][RoutesStudyNext]_vars

\* Pairs of calls of the two canned topic planners on the same arguments.
SpecTopics ==
  Init /\ [][(TopicCallsNext) /\ UNCHANGED <<pipeline_vars, quiz_vars, synth, evaluator, content, fallback_calls, sequence, planner, eager, pretests, reply>>]_vars

\* ------------------------------------------------------------------ claims
\* C1: in every reachable state every stored learning path has
\* 0 <= current_position <= len(resources), whatever the interleaving of the
\* intake and of passing or failing quiz submissions for the learner.
PositionInRange ==
  \A p \in DOMAIN learning_paths :
    /\ learning_paths[p].current_position >= 0
    /\ learning_paths[p].current_position <= Len(learning_paths[p].resources)

\* a passing submission has read a path that is already at its end
PositionAtEnd ==
  \E s \in Submitters :
    /\ submit[s].pc = "read"
    /\ submit[s].position = submit[s].length
    /\ HasPath(submit[s].learner_id)
    /\ LET path == learning_paths[PathOf(submit[s].learner_id)] IN
       path.current_position = Len(path.resources)

\* no other submission is being handled, and none has been since this one
\* read the path
Isolated(s) ==
  /\ \A t \in Submitters \ {s} : submit[t].pc = "idle"
  /\ submit[s].pc = "read" =>
       learning_paths[PathOf(submit[s].learner_id)].current_position = submit[s].position

\* the first part of a submission handled in isolation: below 60 the path
\* documents stay as they are and the handler is done; from 60 on, for a
\* learner with a path, the handler goes on with the position and the
\* feedback it has computed
SubmissionScored(s, q, l, c) ==
  LET total == quizzes[q].questions IN
  /\ 100 * c < 60 * total =>
       /\ learning_paths' = learning_paths
       /\ submit'[s].pc = "idle"
  /\ (100 * c >= 60 * total /\ HasPath(l)) =>
       /\ learning_paths' = learning_paths
       /\ submit'[s].pc = "read"
       /\ submit'[s].learner_id = l
       /\ submit'[s].resource_id = quizzes[q].resource_id
       /\ submit'[s].feedback.total_score = 100 * c
       /\ submit'[s].feedback.total_questions = total
       /\ submit'[s].position = learning_paths[PathOf(l)].current_position
       /\ submit'[s].length = Len(learning_paths[PathOf(l)].resources)

\* the second part: the path read at position p over n resources is stored
\* with position min(p + 1, n) and the feedback under the quiz's resource;
\* every other path stays as it is
SubmissionStored(s) ==
  LET p == PathOf(submit[s].learner_id)
      before == learning_paths[p]
      after == learning_paths'[p]
      n == Len(before.resources)
  IN /\ after.current_position =
          IF before.current_position < n THEN before.current_position + 1 ELSE n
     /\ submit[s].resource_id \in DOMAIN after.progress
     /\ after.progress[submit[s].resource_id] = submit[s].feedback
     /\ \A r \in DOMAIN before.progress \ {submit[s].resource_id} :
          r \in DOMAIN after.progress /\ after.progress[r] = before.progress[r]
     /\ after.resources = before.resources
     /\ \A o \in DOMAIN learning_paths \ {p} : learning_paths'[o] = learning_paths[o]

\* C2: a quiz submission handled in isolation for a learner whose path is at
\* position p over n resources leaves current_position and progress as they
\* are when 100*correct < 60*total, and otherwise sets current_position to
\* min(p + 1, n) and progress[quiz.resource_id] to the feedback summary.
SubmissionInIsolation ==
  [][ \A s \in Submitters :
        Isolated(s) =>
          /\ \A q \in DOMAIN quizzes : \A l \in Learners \cup {UnknownId} :
               \A c \in 0..ResourceQuizCount :
                 SubmitQuiz(s, q, l, c) => SubmissionScored(s, q, l, c)
          /\ SubmitWritePath(s) => SubmissionStored(s) ]_vars

\* a first submission has been handled and has left the path at position 0
\* without progress; a second one, with two answers right of three, has read
\* the path and is alone
ScoredBelowThenAbove ==
  \E s \in Submitters :
    /\ Isolated(s)
    /\ submit[s].pc = "read"
    /\ submit[s].feedback.total_score = 200
    /\ submit[s].feedback.total_questions = 3
    /\ quiz_submissions = 2
    /\ LET path == learning_paths[PathOf(submit[s].learner_id)] IN
       path.current_position = 0 /\ path.progress = <<>>

\* the resources of the path of intake l, and whether all of them are ready
Status(r) == learning_resources[r].status

AllReady(l) ==
  /\ Len(intake[l].resource_ids) = SkeletonSize
  /\ \A i \in 1..Len(intake[l].resource_ids) : Status(intake[l].resource_ids[i]) = "ready"

StatusMonotonic ==
  [][ \A r \in DOMAIN learning_resources :
        Status(r) = "ready" =>
          /\ r \in DOMAIN learning_resources'
          /\ learning_resources'[r].status = "ready" ]_vars

\* a quiz exists for a ready resource while another learner's intake is
\* inserting placeholders and the task of the first is still running
ReadyUnderOtherOperations ==
  \E q \in DOMAIN quizzes : \E l \in Learners :
    /\ Status(quizzes[q].resource_id) = "ready"
    /\ learning_resources[quizzes[q].resource_id].learner_id # l
    /\ intake[l].pc = "profile_saved"
    /\ intake[l].resource_ids # <<>>
    /\ \E k \in Learners : task[k].pc = "calling"

\* C5: every placeholder is updated from 'generating' to 'ready' exactly
\* once, by the background task of its own intake, however many intakes run
\* concurrently: a ready resource has one update, made by its own learner's
\* task, and a resource that is not ready has none.
UpdatedOnceByOwnTask ==
  /\ DOMAIN writes \subseteq DOMAIN learning_resources
  /\ \A r \in DOMAIN learning_resources :
       IF Status(r) = "ready"
         THEN r \in DOMAIN writes /\ writes[r] = <<learning_resources[r].learner_id>>
         ELSE r \notin DOMAIN writes

\* the tasks of two learners have each updated a resource and both wait on
\* the gateway for their next one
TwoTasksUpdating ==
  \E k, l \in Learners :
    /\ k # l
    /\ task[k].pc = "calling" /\ task[l].pc = "calling"
    /\ \E r \in DOMAIN writes : writes[r] = <<k>>
    /\ \E r \in DOMAIN writes : writes[r] = <<l>>

\* C6: the resources of one learner's path become ready in list order: in
\* every reachable state the ready resources of a path are a prefix of
\* path.resources.
ReadyIsPrefix ==
  \A p \in DOMAIN learning_paths :
    LET ids == learning_paths[p].resources IN
    \A i, j \in 1..Len(ids) :
      (i < j /\ Status(ids[j]) = "ready") => Status(ids[i]) = "ready"

\* a path with its first two resources ready and the others generating
PartlyMaterialized ==
  \E p \in DOMAIN learning_paths :
    LET ids == learning_paths[p].resources IN
    /\ Len(ids) = SkeletonSize
    /\ Status(ids[1]) = "ready" /\ Status(ids[2]) = "ready"
    /\ \A i \in 3..Len(ids) : Status(ids[i]) = "generating"

\* C7: process_new_learner never waits on the gateway: no gateway call is
\* ever issued by an intake, and the next step of every intake that has not
\* finished can be taken in every reachable state, whatever gateway calls of
\* background tasks are outstanding.
IntakeNeverWaits ==
  /\ \A c \in gateway : c[1] = "task"
  /\ \A l \in Learners :
       /\ intake[l].pc = "idle" => ENABLED (\E data \in ProfileData : IntakeProfile(l, data))
       /\ intake[l].pc = "profile_saved" => ENABLED (IntakeResource(l) \/ IntakePath(l))
       /\ intake[l].pc = "path_saved" => ENABLED IntakeSpawn(l)

\* an intake has returned while all resources of its path are generating
\* and the gateway calls of its task and of another task are outstanding
ReturnedWhileGenerating ==
  \E k, l \in Learners :
    /\ k # l
    /\ intake[l].pc = "returned"
    /\ Len(intake[l].resource_ids) = SkeletonSize
    /\ \A i \in 1..Len(intake[l].resource_ids) :
         Status(intake[l].resource_ids[i]) = "generating"
    /\ <<"task", l>> \in gateway
    /\ <<"task", k>> \in gateway

\* the resources db.learning_resources holds for learner l
ResourcesOf(l) == {r \in DOMAIN learning_resources : learning_resources[r].learner_id = l}

\* the intake of l has returned and its task has not taken a step
JustReturned(l) == intake[l].pc = "returned" /\ task[l].pc = "start"

OneTaskPerIntake ==
  /\ threads = Cardinality({l \in Learners : intake[l].pc = "returned"})
  /\ Cardinality(DOMAIN learning_paths) =
       threads + Cardinality({l \in Learners : intake[l].pc = "path_saved"})
  /\ \A l \in Learners :
       /\ task[l].pc # "none" <=> intake[l].pc = "returned"
       /\ intake[l].pc = "failed" => ~HasPath(l)

\* one intake has returned and started its task, another has failed after
\* persisting its profile, and a quiz has been generated
OneReturnedOneFailed ==
  \E k, l \in Learners :
    /\ intake[k].pc = "returned" /\ task[k].pc # "none"
    /\ intake[l].pc = "failed" /\ l \in DOMAIN learner_profiles
    /\ threads = 1
    /\ quizzes # <<>>

\* C10: for every topic, difficulty and count >= 0 and every behaviour of
\* the gateway, generate_quiz_questions returns exactly count questions,
\* each with exactly 4 options and a correct_answer among them, from a
\* gateway response or from the fallback bank.
QuizWellFormed ==
  synth.pc = "returned" =>
    /\ Len(synth.questions) = synth.count
    /\ \A i \in 1..Len(synth.questions) :
         /\ Len(synth.questions[i].options) = 4
         /\ InSeq(synth.questions[i].correct_answer, synth.questions[i].options)

\* a gateway response was accepted whose items state an answer outside
\* their first four options
CorrectedAnswerReturned ==
  /\ synth.pc = "returned"
  /\ synth.source = "gateway"
  /\ synth.count = 2
  /\ synth.questions[1].correct_answer = "A"
  /\ synth.questions[1].topic = "generated topic"
  /\ synth.questions[2].correct_answer = "B"

\* C11: no exception leaves generate_quiz_questions: whatever the gateway
\* does on each attempt (it raises, returns the empty string, text that is
\* no JSON, a truncated array, a JSON object, an array whose elements lack
\* required keys, have fewer than 4 options or are no objects), the call
\* never ends with an exception, it can always take its next step until it
\* has returned, and it returns count questions.
NoExceptionEscapes ==
  /\ synth.pc # "raised"
  /\ synth.pc \in {"running", "loaded"} => ENABLED SynthNext
  /\ synth.pc = "returned" => Len(synth.questions) = synth.count

\* two attempts ended with an exception and the third one's questions were
\* returned
ReturnedAfterTwoExceptions ==
  /\ synth.pc = "returned"
  /\ synth.source = "gateway"
  /\ synth.retry_count = 2
  /\ synth.count = 2
  /\ Len(synth.questions) = 2

\* a q_data with the required keys and a list of at least 4 options
ValidItem(item) ==
  /\ item.t = "dict"
  /\ item.has_question /\ item.has_correct
  /\ item.options_list /\ Len(item.options) >= 4

\* the number of valid elements of a parsed array
RECURSIVE ValidCount(_)
ValidCount(data) ==
  IF data = <<>> THEN 0
  ELSE (IF ValidItem(Head(data)) THEN 1 ELSE 0) + ValidCount(Tail(data))

\* C12: one invocation calls the gateway at most 3 times; an attempt whose
\* response yields at least count valid questions returns at once, with no
\* further call; an attempt that fails to parse or yields fewer is followed
\* by the next attempt; the fallback bank is used exactly when all 3
\* attempts failed.
RetryDiscipline ==
  /\ [](/\ synth.calls <= 3
        /\ synth.pc = "returned" =>
             /\ ~ENABLED (\E response \in Responses : SynthAttempt(response))
             /\ synth.source = "fallback" <=> synth.retry_count = 3 /\ synth.calls = 3
             /\ synth.source = "gateway" => synth.calls = synth.retry_count + 1
        /\ synth.pc = "running" =>
             /\ synth.calls = synth.retry_count
             /\ synth.retry_count < 3 =>
                  /\ ENABLED (\E response \in Responses : SynthAttempt(response))
                  /\ ~ENABLED SynthFallback)
  /\ [][/\ synth.pc = "running" /\ synth'.pc = "running" =>
             /\ synth'.calls = synth.calls + 1
             /\ synth'.retry_count = synth.retry_count + 1
        /\ synth.pc = "loaded" =>
             IF ValidCount(synth.questions_data) >= synth.count
               THEN /\ synth'.pc = "returned"
                    /\ synth'.source = "gateway"
                    /\ synth'.calls = synth.calls
               ELSE /\ synth'.pc = "running"
                    /\ synth'.calls = synth.calls
                    /\ synth'.retry_count = synth.retry_count + 1]_vars

\* the fallback bank answered after three gateway calls
FallbackAfterThreeCalls ==
  /\ synth.pc = "returned"
  /\ synth.source = "fallback"
  /\ synth.calls = 3
  /\ synth.count = 2

\* C13: a candidate question with the required fields and at least 4
\* options is kept whatever answer it states: it is neither dropped nor a
\* cause of a retry. Its options are cut to the first 4; a stated answer
\* among the first 4 options is kept as it is, any other stated answer is
\* replaced by the first option.
AnswerCorrected ==
  [][synth.pc = "loaded" /\ ValidCount(synth.questions_data) >= synth.count =>
       /\ synth'.pc = "returned"
       /\ synth'.retry_count = synth.retry_count
       /\ Len(synth'.questions) = Len(synth.questions_data)
       /\ \A i \in 1..Len(synth.questions_data) :
            LET item == synth.questions_data[i]
                q == synth'.questions[i]
            IN /\ q.options = <<item.options[1], item.options[2],
                                item.options[3], item.options[4]>>
               /\ q.correct_answer =
                    IF \E k \in 1..4 : item.options[k] = item.correct
                      THEN item.correct
                      ELSE item.options[1]]_vars

\* a response was accepted at the first attempt whose first element states
\* an answer that is none of its options and whose second element states
\* its second option
ForeignAnswerKept ==
  /\ synth.pc = "returned"
  /\ synth.source = "gateway"
  /\ synth.retry_count = 0
  /\ synth.count = 2
  /\ synth.questions[1].options = <<"A", "B", "C", "D">>
  /\ synth.questions[1].correct_answer = "A"
  /\ synth.questions[1].topic = synth.topic
  /\ synth.questions[2].correct_answer = "B"

\* the bank the fallback questions of a topic come from
BankOf(topic) ==
  LET lowered == Lower(Chars(topic)) IN
  IF lowered = Chars("algebra") THEN question_templates("algebra")
  ELSE IF lowered = Chars("geometry") THEN question_templates("geometry")
  ELSE IF lowered = Chars("trigonometry") THEN question_templates("trigonometry")
  ELSE IF lowered = Chars("calculus") THEN question_templates("calculus")
  ELSE question_templates("algebra")

\* C14: with the gateway unreachable on every attempt, generate_quiz_questions
\* returns count questions; question i (from 0) is entry i mod 5 of the bank
\* of the lower-cased topic, the algebra bank when the topic is none of
\* algebra, geometry, trigonometry, calculus; its text carries the prefix
\* "Advanced: " exactly when i >= 5, its correct answer is the entry's first
\* option, and all ids differ.
OfflineQuestionsFromBank ==
  synth.pc = "returned" =>
    /\ Len(synth.questions) = synth.count
    /\ \A n \in 1..Len(synth.questions) :
         LET i == n - 1
             entry == BankOf(synth.topic)[(i % 5) + 1]
             q == synth.questions[n]
         IN /\ q.question = IF i >= 5 THEN "Advanced: " \o entry[1] ELSE entry[1]
            /\ q.options = entry[2]
            /\ q.correct_answer = entry[2][1]
    /\ \A m, n \in 1..Len(synth.questions) :
         m # n => synth.questions[m].id # synth.questions[n].id

\* six questions were asked for on a topic written with a capital, and the
\* sixth is the first entry of the geometry bank again
SixthQuestionAdvanced ==
  /\ synth.pc = "returned"
  /\ synth.topic = "Geometry"
  /\ synth.count = 6
  /\ synth.source = "fallback"
  /\ synth.questions[6].question = "Advanced: Sum of angles in a triangle?"
  /\ synth.questions[6].correct_answer = "180 degrees"

\* C15: loosely typed intake input is corrected, never rejected: whatever
\* knowledge_level (integer, numeric string, other string, null, absent) and
\* weak_areas (list or not) a request with the other fields in place
\* carries, process_new_learner does not fail, and the profile it persists
\* has an integer knowledge_level (1 when the coercion fails) and a list as
\* weak_areas.
IntakeCorrectsInput ==
  \A l \in Learners :
    /\ intake[l].pc = "failed" => l \notin DOMAIN learner_profiles
    /\ l \in DOMAIN learner_profiles =>
         /\ learner_profiles[l].knowledge_level.t = "int"
         /\ learner_profiles[l].weak_areas \in Seq({"", "linear equations", "Circle",
                                                    "angles", "tion", "Linear", "xyz"})

\* an intake whose knowledge_level was null has failed after its profile
\* was persisted with the null
NullLevelPersisted ==
  \E l \in Learners :
    /\ intake[l].pc = "failed"
    /\ l \in DOMAIN learner_profiles
    /\ learner_profiles[l].knowledge_level = KLNull

\* the 5 canonical topics of a subject, algebra's for an unknown subject
CanonicalTopics(subject) ==
  LET lowered == Lower(Chars(subject)) IN
  IF lowered = Chars("geometry") THEN topic_sequences("geometry")
  ELSE IF lowered = Chars("trigonometry") THEN topic_sequences("trigonometry")
  ELSE IF lowered = Chars("calculus") THEN topic_sequences("calculus")
  ELSE topic_sequences("algebra")

\* some weak area is a substring of the topic, letter case apart
MatchesWeakArea(topic, weak_areas) ==
  \E w \in 1..Len(weak_areas) :
    Contains(Lower(Chars(topic)), Lower(Chars(weak_areas[w])))

\* the place of a topic in a sequence of distinct topics
PlaceIn(topic, s) == CHOOSE i \in 1..Len(s) : s[i] = topic

\* C16: for every subject and weak_areas list the skeleton's topic sequence
\* is a permutation of the subject's 5 canonical topics (algebra's for an
\* unknown subject, letter case of the subject apart): every topic that
\* contains a weak area, letter case apart, precedes every topic that
\* contains none, and the topics containing none keep their canonical
\* order. For algebra with weak area 'linear equations' the sequence begins
\* with 'Linear Equations'.
TopicsPrioritized ==
  \A l \in Learners :
    (l \in DOMAIN learner_profiles /\ intake[l].pc # "idle") =>
      LET topics == intake[l].topics
          weak_areas == learner_profiles[l].weak_areas
          base == CanonicalTopics(learner_profiles[l].subject)
      IN /\ Len(topics) = 5
         /\ \A j \in 1..5 : \E i \in 1..5 : topics[i] = base[j]
         /\ \A i, j \in 1..5 : i # j => topics[i] # topics[j]
         /\ \A i, j \in 1..5 :
              (i < j /\ MatchesWeakArea(topics[j], weak_areas))
                => MatchesWeakArea(topics[i], weak_areas)
         /\ \A i, j \in 1..5 :
              (i < j /\ ~MatchesWeakArea(topics[i], weak_areas)
                     /\ ~MatchesWeakArea(topics[j], weak_areas))
                => PlaceIn(topics[i], base) < PlaceIn(topics[j], base)
         /\ (learner_profiles[l].subject = "algebra"
               /\ weak_areas = <<"linear equations">>)
              => topics[1] = "Linear Equations"

\* the weak areas 'tion' and 'Linear' of an algebra learner moved four
\* topics ahead of 'Variables and Expressions'
FourTopicsAhead ==
  \E l \in Learners :
    /\ intake[l].pc = "profile_saved"
    /\ l \in DOMAIN learner_profiles
    /\ learner_profiles[l].weak_areas = <<"tion", "Linear">>
    /\ intake[l].topics[1] = "Linear Equations"
    /\ intake[l].topics[2] = "Systems of Equations"
    /\ intake[l].topics[5] = "Variables and Expressions"

\* the pairs of a user answer and a correct answer of the evaluator study
\* that are equal once blanks at both ends are trimmed and letters are
\* lower-cased
EqualWhenNormalized ==
  { <<"B", "B">>, <<"b", "B">>, <<" b ", "B">>, <<"\tB\n", "B">>,
    <<"X + 1", "x + 1">> }

\* C17: evaluate_quiz_response sets is_correct exactly when the user answer
\* equals the question's correct_answer after trimming blanks at both ends
\* and lower-casing both; score is 100 exactly when is_correct and 0
\* otherwise; neither depends on what the gateway answers or on its failure.
EvaluationByNormalizedEquality ==
  (evaluator.op = "evaluate" /\ evaluator.pc \in {"calling", "returned"}) =>
    LET equal == <<evaluator.user_answer, evaluator.question.correct_answer>>
                   \in EqualWhenNormalized
    IN /\ evaluator.is_correct <=> equal
       /\ evaluator.pc = "returned" =>
            /\ evaluator.result.is_correct <=> equal
            /\ evaluator.result.score = IF equal THEN 100 ELSE 0

\* the answer " b " to a question whose correct answer is "B" was scored
\* 100 although the gateway raised
BlankPaddedAnswerScored ==
  /\ evaluator.pc = "returned"
  /\ evaluator.op = "evaluate"
  /\ evaluator.user_answer = " b "
  /\ evaluator.question.correct_answer = "B"
  /\ evaluator.response.kind = "raise"
  /\ evaluator.result.is_correct
  /\ evaluator.result.score = 100

\* the sentence that states the verdict, and the one that also names the
\* correct answer
VerdictSentence(is_correct) ==
  "Your answer is " \o (IF is_correct THEN "correct" ELSE "incorrect") \o "."
NamingSentence(is_correct, correct_answer) ==
  "Your answer is " \o (IF is_correct THEN "correct" ELSE "incorrect")
    \o ". The correct answer is " \o correct_answer \o "."

\* C18: when the gateway raises or returns the empty string,
\* evaluate_quiz_response returns the templated feedback that states
\* whether the answer is correct and names the correct answer if and only
\* if the answer is incorrect.
FailedFeedbackTemplated ==
  (/\ evaluator.op = "evaluate"
   /\ evaluator.pc = "returned"
   /\ evaluator.response \in {[kind |-> "raise", text |-> ""],
                              [kind |-> "text", text |-> ""]}) =>
    evaluator.result.feedback =
      IF evaluator.result.is_correct
        THEN VerdictSentence(TRUE)
        ELSE NamingSentence(FALSE, evaluator.question.correct_answer)

\* the gateway returned the empty string for a wrong answer, and the
\* feedback does not name the correct answer
WrongAnswerNotNamed ==
  /\ evaluator.op = "evaluate"
  /\ evaluator.pc = "returned"
  /\ evaluator.response = [kind |-> "text", text |-> ""]
  /\ ~evaluator.result.is_correct
  /\ evaluator.result.feedback = "Your answer is incorrect."

\* C19: for results that are not empty, generate_overall_feedback returns
\* total_questions = the number of results, correct_answers = the number of
\* correct results, an average_score whose product with total_questions is
\* the sum of the scores (40 for 2 correct of 5), weak_topics = the set of
\* the topics of the incorrect results and strong_topics = the set of the
\* topics of the correct results; for no results it returns average_score 0
\* and the recommendation 'No quiz data available' without a gateway call.
OverallFeedbackAggregates ==
  (evaluator.op = "overall" /\ evaluator.pc = "returned") =>
    LET results == evaluator.quiz_results
        r == evaluator.result
        correct == {i \in 1..Len(results) : results[i].is_correct}
        incorrect == {i \in 1..Len(results) : ~results[i].is_correct}
    IN IF results = <<>>
         THEN /\ r.average_score.num = 0
              /\ r.recommendation = "No quiz data available"
              /\ evaluator.calls = 0
         ELSE /\ r.total_questions = Len(results)
              /\ r.correct_answers = Cardinality(correct)
              /\ r.average_score.num * r.total_questions
                   = 100 * Cardinality(correct) * r.average_score.den
              /\ (Len(results) = 5 /\ Cardinality(correct) = 2)
                   => r.average_score.num = 40 * r.average_score.den
              /\ r.weak_topics = {results[i].topic : i \in incorrect}
              /\ r.strong_topics = {results[i].topic : i \in correct}

\* five results, three of them wrong and all of those about geometry, were
\* aggregated
TwoOfFiveAggregated ==
  /\ evaluator.op = "overall"
  /\ evaluator.pc = "returned"
  /\ Len(evaluator.quiz_results) = 5
  /\ evaluator.result.correct_answers = 2
  /\ evaluator.result.average_score = [num |-> 200, den |-> 5]
  /\ evaluator.result.weak_topics = {"geometry"}
  /\ evaluator.result.strong_topics = {"algebra", "geometry"}

\* C20: the content synthesizer never raises: for every topic and every
\* gateway behaviour (transport error, empty string, text that is no JSON,
\* truncated JSON, a JSON object lacking keys) it returns a LearningContent
\* that carries the requested topic, resource type, difficulty and
\* learning style.
ContentAlwaysReturned ==
  /\ content.pc # "raised"
  /\ content.pc = "returned" =>
       /\ content.result # <<>>
       /\ content.result.topic = content.topic
       /\ content.result.type = content.resource_type
       /\ content.result.difficulty_level = content.difficulty
       /\ content.result.learning_style = content.learning_style

\* a call for the empty topic has ended with the exception of the fallback
EmptyTopicRaised ==
  /\ content.pc = "raised"
  /\ content.topic = ""

\* C21: when the gateway returns a parsable JSON object that lacks required
\* keys (title, content, summary or learning_objectives), the content
\* synthesizer treats it as a failure and returns the content of the static
\* fallback bank, not content built from the partial object.
PartialObjectFallsBack ==
  (content.pc = "returned" /\ content.outcome = "partial") =>
    content.result.origin = "fallback"

\* content built from a JSON object lacking required keys was returned
PartialObjectReturned ==
  /\ content.pc = "returned"
  /\ content.outcome = "partial"
  /\ content.result.origin = "partial"
  /\ content.topic = "Linear Equations"

\* the titles of the lessons of the fallback bank
BankTitles ==
  UNION {{content_templates(k, "visual")[d].title :
            d \in DOMAIN content_templates(k, "visual")} : k \in ContentKeys}

\* the bank keys that are the topic's name, blanks at the ends and letter
\* case apart
KeysNaming(topic) ==
  {k \in ContentKeys : Chars(k) = Lower(Strip(Chars(topic)))}

\* C22: on fallback the content returned for a topic is the bank entry keyed
\* by the topic's normalized name and the difficulty; for a topic without a
\* bank entry, as the skeleton topics 'Linear Equations' and 'Circle
\* Geometry', the result is a stub that names the topic and never the
\* lesson of another topic or subject.
FallbackOfOwnTopic ==
  (content.pc = "returned" /\ content.result.origin = "fallback") =>
    /\ \A k \in KeysNaming(content.topic) :
         content.difficulty \in DOMAIN content_templates(k, content.learning_style)
           => content.result.title
                = content_templates(k, content.learning_style)[content.difficulty].title
    /\ KeysNaming(content.topic) = {} => content.result.title \notin BankTitles

\* the fallback content of the skeleton topic 'Linear Equations' at
\* difficulty 1 is the algebra lesson on variables
ForeignLessonReturned ==
  /\ content.pc = "returned"
  /\ content.result.origin = "fallback"
  /\ content.topic = "Linear Equations"
  /\ content.difficulty = 1
  /\ content.result.title = "Introduction to Algebraic Variables"

\* C23: for every entry of the fallback bank the fallback content returned
\* for two different learning styles among visual, auditory, reading and
\* kinesthetic differs: no two styles receive the same content body.
FallbackStylesDiffer ==
  (content.pc = "returned" /\ content.result.origin = "fallback") =>
    \A other \in {"visual", "auditory", "reading", "kinesthetic"} :
      other # content.learning_style =>
        FallbackContent(1, content.topic, content.resource_type,
                        content.difficulty, other).content
          # content.result.content

\* the geometry lesson of difficulty 1 returned to a visual learner is the
\* one a kinesthetic learner gets
SameLessonForTwoStyles ==
  /\ content.pc = "returned"
  /\ content.result.origin = "fallback"
  /\ content.topic = "Geometry"
  /\ content.difficulty = 1
  /\ content.learning_style = "visual"
  /\ content.result.title = "Fundamentals of Geometric Shapes"
  /\ content.result.content
       = FallbackContent(1, "Geometry", content.resource_type, 1, "kinesthetic").content

\* a LearningContent without its id
WithoutId(c) ==
  [ title |-> c.title, type |-> c.type, content |-> c.content,
    summary |-> c.summary, difficulty_level |-> c.difficulty_level,
    learning_style |-> c.learning_style, topic |-> c.topic,
    estimated_duration |-> c.estimated_duration,
    learning_objectives |-> c.learning_objectives ]

PreferredTypes(learning_style) ==
  IF learning_style = "visual"
    THEN <<"infographic_lesson", "diagram_tutorial", "visual_guide", "chart_explanation">>
  ELSE IF learning_style = "kinesthetic"
    THEN <<"interactive_exercise", "hands_on_activity", "practice_problems", "simulation">>
  ELSE IF learning_style = "auditory"
    THEN <<"audio_lesson", "discussion_guide", "verbal_explanation", "story_based_lesson">>
  ELSE IF learning_style = "reading"
    THEN <<"text_lesson", "article", "step_by_step_guide", "detailed_explanation">>
  ELSE <<"lesson", "tutorial", "guide", "practice">>

ArrayAt(response, i, j, n) ==
  /\ response[i] = "["
  /\ response[j] = "]"
  /\ j - i - 1 = n
  /\ \A k \in (i + 1)..(j - 1) : response[k] = "T"

\* the response contains a parsable JSON array with at least 3 entries
HasTopicArray(response) ==
  \E i, j \in 1..Len(response) : \E n \in 3..Len(response) :
    ArrayAt(response, i, j, n)

\* C26: _generate_topic_sequence never raises; it returns the gateway's
\* topics, at most the first five, exactly when the gateway's response
\* contains a parsable JSON array with at least 3 entries, and otherwise the
\* canonical list of the subject (algebra's for an unknown subject) with the
\* topics of the weak areas first.
TopicSequenceFromGateway ==
  planner.pc = "returned" =>
    /\ planner.source = "gateway" <=>
         (~planner.raised /\ HasTopicArray(planner.response))
    /\ planner.source = "gateway" =>
         /\ Len(planner.topics) <= 5
         /\ \E i, j \in 1..Len(planner.response) : \E n \in 3..Len(planner.response) :
              /\ ArrayAt(planner.response, i, j, n)
              /\ \A k \in 1..Len(planner.topics) : planner.topics[k] = i + k
              /\ Len(planner.topics) = IF n > 5 THEN 5 ELSE n
    /\ planner.source = "fallback" =>
         LET base == CanonicalTopics(planner.subject) IN
         /\ Len(planner.topics) = 5
         /\ \A j \in 1..5 : \E i \in 1..5 : planner.topics[i] = base[j]
         /\ \A i, j \in 1..5 :
              (i < j /\ MatchesWeakArea(planner.topics[j], planner.weak_areas))
                => MatchesWeakArea(planner.topics[i], planner.weak_areas)

\* the gateway answered a one-entry array and then an array of three topics,
\* and the canonical list was returned
ArrayAfterRemarkIgnored ==
  /\ planner.pc = "returned"
  /\ ~planner.raised
  /\ planner.response = <<"[", "T", "]", "[", "T", "T", "T", "]">>
  /\ planner.source = "fallback"
  /\ planner.topics[1] = "Linear Equations"

\* C27: generate_learning_path_with_content is fallback-safe: no exception
\* leaves it; the ids it returns are in order and each is persisted with
\* status 'ready'; after an error in the primary generation it returns the
\* ids of the fallback path; and every resource it persisted for the learner
\* is in the returned list.
EagerFallbackSafe ==
  /\ eager.pc # "raised"
  /\ eager.pc = "returned" =>
       /\ \A k \in 1..Len(eager.result) :
            \E d \in 1..Len(eager.stored) :
              /\ eager.stored[d].id = eager.result[k]
              /\ eager.stored[d].status = "ready"
       /\ \A d \in 1..Len(eager.stored) :
            \E k \in 1..Len(eager.result) : eager.result[k] = eager.stored[d].id
       /\ \A j, k \in 1..Len(eager.result) :
            j < k => eager.result[j] < eager.result[k]

\* the gateway named a blank topic after 'algebra' and failed on its content:
\* two resources were persisted and a NameError left the call
NameErrorAfterTwoStored ==
  /\ eager.pc = "raised"
  /\ eager.error = "NameError"
  /\ eager.topics = <<"algebra", "", "Geometry">>
  /\ eager.t = 2
  /\ Len(eager.stored) = 2

\* the id of a request is absent from the collection its route looks it up in
AbsentId(route, id) ==
  CASE route = "submit_quiz" -> id \notin DOMAIN quizzes
    [] route = "submit_pretest" -> id \notin DOMAIN pretests
    [] route \in {"get_learning_path", "get_learner_progress"} ->
         id \notin DOMAIN learner_profiles \/ ~HasPath(id)
    [] route = "get_resource" -> id \notin DOMAIN learning_resources
    [] OTHER -> FALSE

\* C30: a submission that names a quiz id or pretest id absent from storage,
\* and a path, progress or resource read for an absent learner or resource
\* id, is answered 404 with success false and changes no collection: no
\* submission is recorded, no path is modified, no gateway call is made.
AbsentIdNotFound ==
  [][(reply' # reply /\ AbsentId(reply'.route, reply'.id)) =>
       /\ reply'.status = 404
       /\ reply'.success = FALSE
       /\ reply'.calls = 0
       /\ UNCHANGED <<learner_profiles, learning_resources, learning_paths,
                      quizzes, quiz_submissions, pretests, gateway>>]_vars

\* a submission to pretest id 2 was answered 404 while pretest 1, a quiz and
\* a path were stored
AbsentPretestAnswered ==
  /\ reply.route = "submit_pretest"
  /\ reply.id = 2
  /\ reply.status = 404
  /\ Len(pretests) = 1
  /\ Len(quizzes) = 1
  /\ HasPath(1)

\* C28: a resource quiz and a pretest are created with status 'active'; after
\* a successful submission of answers the document has status 'completed';
\* the status never goes back from 'completed' to 'active'.
QuizLifecycle ==
  [][/\ \A q \in DOMAIN quizzes' :
          q \notin DOMAIN quizzes => quizzes'[q].status = "active"
     /\ \A t \in DOMAIN pretests' :
          t \notin DOMAIN pretests => pretests'[t].status = "active"
     /\ \A q \in DOMAIN quizzes :
          quizzes[q].status = "completed" => quizzes'[q].status = "completed"
     /\ \A t \in DOMAIN pretests :
          pretests[t].status = "completed" => pretests'[t].status = "completed"
     /\ quiz_submissions' > quiz_submissions =>
          \E q \in DOMAIN quizzes' : quizzes'[q].status = "completed"
     /\ (reply' # reply /\ reply'.route = "submit_pretest" /\ reply'.success) =>
          pretests'[reply'.id].status = "completed"]_vars

\* a passing submission to the quiz was stored and advanced the path, and
\* the quiz is still 'active'
SubmittedQuizStillActive ==
  /\ quiz_submissions = 1
  /\ Len(quizzes) = 1
  /\ quizzes[1].status = "active"
  /\ HasPath(1)
  /\ learning_paths[PathOf(1)].current_position = 1

\* C29: a quiz is not replayed for advancement: when passing answers to a
\* quiz id are submitted a second time for the same learner, one submission
\* after the other, current_position stays as it is, so that a quiz advances
\* the path at most once. Stated for the states with one quiz, where the
\* feedback stored under its resource comes from that quiz.
NoReplayAdvance ==
  [][\A s \in Submitters :
       (/\ submit[s].pc = "read"
        /\ submit'[s].pc = "idle"
        /\ Len(quizzes) = 1
        /\ \A t \in Submitters : t # s => submit[t].pc = "idle"
        /\ submit[s].resource_id
             \in DOMAIN learning_paths[PathOf(submit[s].learner_id)].progress)
       => learning_paths'[PathOf(submit[s].learner_id)].current_position
            = learning_paths[PathOf(submit[s].learner_id)].current_position]_vars

\* the one quiz was passed twice, one submission after the other, and the
\* path stands at its third resource
SameQuizAdvancedTwice ==
  /\ Len(quizzes) = 1
  /\ quiz_submissions = 2
  /\ \A s \in Submitters : submit[s].pc = "idle"
  /\ HasPath(1)
  /\ learning_paths[PathOf(1)].current_position = 2
  /\ quizzes[1].resource_id \in DOMAIN learning_paths[PathOf(1)].progress

\* the positions of a background task that has started and not ended
RunningTask(l) == task[l].pc \in {"start", "loop", "calling"}

\* C31: the background task is detached and takes no lock. An error raised
\* inside it ends in the task: the step leaves every intake, every quiz
\* submission and every other task as they were. While a task runs, also
\* while it waits for the gateway, another intake can start and go on to its
\* end, and a path read and a quiz submission for the same or another
\* learner can start.
TaskDetached ==
  /\ [](\A l \in Learners : RunningTask(l) =>
          /\ \A m \in Learners :
               /\ intake[m].pc = "idle" =>
                    ENABLED (\E data \in ProfileData : IntakeProfile(m, data))
               /\ intake[m].pc = "profile_saved" =>
                    ENABLED (IntakeResource(m) \/ IntakePath(m))
               /\ intake[m].pc = "path_saved" => ENABLED IntakeSpawn(m)
               /\ ENABLED ReadPath("get_learning_path", m)
          /\ \A q \in DOMAIN quizzes : \A m \in Learners \cup {UnknownId} :
               ENABLED SubmitQuiz(1, q, m, ResourceQuizCount))
  /\ [][\A l \in Learners :
          (task[l].pc # "crashed" /\ task'[l].pc = "crashed") =>
            /\ intake' = intake
            /\ submit' = submit
            /\ reply' = reply
            /\ \A m \in Learners : m # l => task'[m] = task[m]]_vars

\* the task of the second intake ended on a store error while the first
\* task waits for the gateway; both intakes have returned and a quiz exists
CrashedBesideBlockedTask ==
  /\ task[1].pc = "calling"
  /\ task[2].pc = "crashed"
  /\ intake[1].pc = "returned"
  /\ intake[2].pc = "returned"
  /\ Len(quizzes) = 1

\* the fields of a resource that update_data never names
Frame(doc) ==
  [id |-> doc.id, topic |-> doc.topic, type |-> doc.type,
   difficulty_level |-> doc.difficulty_level,
   learning_style |-> doc.learning_style, learner_id |-> doc.learner_id]

\* C32: a step of the background task of learner l changes, in the store,
\* at most the generated fields of resources of l's own path: no path
\* document changes, no resource is inserted or deleted, and id, topic,
\* type, difficulty_level, learning_style and learner_id of every resource
\* stay as they are.
MaterializationFrame ==
  [][\A l \in Learners :
       (RunningTask(l) /\ task'[l] # task[l]) =>
         /\ learning_paths' = learning_paths
         /\ DOMAIN learning_resources' = DOMAIN learning_resources
         /\ \A r \in DOMAIN learning_resources :
              /\ Frame(learning_resources'[r]) = Frame(learning_resources[r])
              /\ learning_resources'[r] # learning_resources[r] =>
                   /\ PathId(l) \in DOMAIN learning_paths
                   /\ \E i \in DOMAIN learning_paths[PathId(l)].resources :
                        learning_paths[PathId(l)].resources[i] = r]_vars

\* the first resource of a path carries the generated title and content
\* while its task waits on the gateway for the second one, a resource of
\* another learner still being a placeholder
MaterializedBesidePlaceholder ==
  \E k, l \in Learners :
    /\ k # l
    /\ task[l].pc = "calling" /\ task[l].idx = 2
    /\ PathId(l) \in DOMAIN learning_paths
    /\ learning_paths[PathId(l)].resources[1] = ResourceId(l, 1)
    /\ learning_resources[ResourceId(l, 1)].title = "detailed title"
    /\ learning_resources[ResourceId(l, 1)].status = "ready"
    /\ ResourceId(k, 1) \in DOMAIN learning_resources
    /\ learning_resources[ResourceId(k, 1)].status = "generating"

\* the resources of task l's path that the task has set ready
UpdatedBy(l) ==
  {i \in DOMAIN task[l].resources :
     /\ task[l].resources[i] \in DOMAIN writes
     /\ writes[task[l].resources[i]] = <<l>>}

\* C33: the background task of a path works on one resource at a time with
\* one attempt each: it waits on the gateway exactly while it is in its one
\* call, for a resource that is still 'generating'; the calls it has made
\* are one per resource it has set ready plus the call outstanding; and a
\* finished task has made one call per resource of the path and left every
\* one of them 'ready', whatever the gateway answered.
OneAttemptEach ==
  \A l \in Learners :
    /\ (<<"task", l>> \in gateway) <=> (task[l].pc = "calling")
    /\ task[l].pc = "calling" =>
         Status(task[l].resources[task[l].idx]) = "generating"
    /\ task[l].pc \in {"loop", "calling", "done"} =>
         task[l].calls = Cardinality(UpdatedBy(l))
                           + (IF task[l].pc = "calling" THEN 1 ELSE 0)
    /\ task[l].pc = "done" =>
         /\ task[l].calls = Len(task[l].resources)
         /\ \A i \in DOMAIN task[l].resources :
              Status(task[l].resources[i]) = "ready"

\* a task has finished its path after five calls, the gateway having failed
\* for the last resource, while the task of another path waits on its call
FinishedAfterFailedCall ==
  \E k, l \in Learners :
    /\ k # l
    /\ task[l].pc = "done"
    /\ task[l].calls = SkeletonSize
    /\ task[l].detailed = "fallback"
    /\ Status(task[l].resources[SkeletonSize]) = "ready"
    /\ task[k].pc = "calling"
    /\ <<"task", k>> \in gateway

\* C34: current_position of a path never decreases, under any interleaving
\* of concurrent submissions for its learner: every step leaves the stored
\* value of every path at least as large as it was.
PositionNeverDecreases ==
  [][\A p \in DOMAIN learning_paths :
       p \in DOMAIN learning_paths' =>
         learning_paths'[p].current_position
           >= learning_paths[p].current_position]_vars

\* a handler still holds the position it read while the stored position is
\* already beyond the one it is about to write
StaleReadBehindStore ==
  \E s \in Submitters :
    /\ submit[s].pc = "read"
    /\ HasPath(submit[s].learner_id)
    /\ learning_paths[PathOf(submit[s].learner_id)].current_position
         > NewPosition(submit[s].position, submit[s].length)

\* C35: no passing submission is lost: the write of every passing
\* submission leaves the stored current_position one above the value stored
\* before it (up to the length of the path), so that two concurrent passing
\* submissions at position p with p + 2 <= len(resources) end at p + 2.
NoAdvanceLost ==
  [][\A s \in Submitters :
       (submit[s].pc = "read" /\ submit'[s].pc = "idle") =>
         LET p == PathOf(submit[s].learner_id) IN
         learning_paths'[p].current_position
           = NewPosition(learning_paths[p].current_position,
                         Len(learning_paths[p].resources))]_vars

\* of two passing submissions that both read position 0, one has written
\* position 1 and the other is about to write position 1 again
SecondWriteRepeatsFirst ==
  \E s \in Submitters :
    /\ submit[s].pc = "read"
    /\ submit[s].position = 0
    /\ quiz_submissions = 2
    /\ \A t \in Submitters : t # s => submit[t].pc = "idle"
    /\ HasPath(submit[s].learner_id)
    /\ learning_paths[PathOf(submit[s].learner_id)].current_position = 1
    /\ submit[s].position + 2 <= submit[s].length

\* the stored paths of a learner, and the stored paths that list a resource
PathsOfLearner(id) ==
  {p \in DOMAIN learning_paths : learning_paths[p].learner_id = id}
PathsListing(r) ==
  {p \in DOMAIN learning_paths :
     \E i \in DOMAIN learning_paths[p].resources : learning_paths[p].resources[i] = r}

\* C36: intake is all-or-nothing: in every state with no intake in
\* progress, every persisted profile has exactly one path and every
\* persisted resource is listed by exactly one path; a failed intake leaves
\* no profile without a path and no resource outside a path.
IntakeAllOrNothing ==
  (\A l \in Learners : intake[l].pc \in {"idle", "returned", "failed"}) =>
    /\ \A id \in DOMAIN learner_profiles : Cardinality(PathsOfLearner(id)) = 1
    /\ \A r \in DOMAIN learning_resources : Cardinality(PathsListing(r)) = 1

\* one intake has returned with its path stored; the other has failed and
\* its profile is stored with no path and no resource
ProfileWithoutPath ==
  \E k, l \in Learners :
    /\ intake[k].pc = "returned"
    /\ Cardinality(PathsOfLearner(k)) = 1
    /\ intake[l].pc = "failed"
    /\ l \in DOMAIN learner_profiles
    /\ PathsOfLearner(l) = {}
    /\ \A r \in DOMAIN learning_resources : learning_resources[r].learner_id # l

\* the ids in the resources list of a stored path
PathResources(p) ==
  {learning_paths[p].resources[i] : i \in DOMAIN learning_paths[p].resources}

\* C37: for every quiz id and learner_id a client sends, every key of a
\* path's progress map is the id of a resource in that path's resources
\* list, and the write of a passing submission changes current_position
\* only when the quiz's resource is the resource of the path at
\* current_position.
ProgressFollowsPath ==
  /\ [](\A p \in DOMAIN learning_paths :
          DOMAIN learning_paths[p].progress \subseteq PathResources(p))
  /\ [][\A s \in Submitters :
          (submit[s].pc = "read" /\ submit'[s].pc = "idle") =>
            LET p == PathOf(submit[s].learner_id)
                at == learning_paths[p].current_position
            IN learning_paths'[p].current_position # at =>
                 /\ at < Len(learning_paths[p].resources)
                 /\ learning_paths[p].resources[at + 1] = submit[s].resource_id]_vars

\* the path stands at its second resource after one passing submission,
\* whose quiz was for the last resource of the path
AdvancedByLaterQuiz ==
  /\ HasPath(1)
  /\ learning_paths[PathOf(1)].current_position = 1
  /\ DOMAIN learning_paths[PathOf(1)].progress = {ResourceId(1, SkeletonSize)}
  /\ quiz_submissions = 1
  /\ \A s \in Submitters : submit[s].pc = "idle"

\* C38: every persisted resource has a difficulty_level between 1 and 5,
\* for every knowledge_level a client can supply (0, negative and above 5
\* included) and every position in the path.
DifficultyInRange ==
  \A r \in DOMAIN learning_resources :
    learning_resources[r].difficulty_level \in 1..MaxDifficulty

\* the intake of a learner with knowledge_level 0 has returned and the
\* first placeholder of the path is stored with difficulty_level 0
ZeroDifficultyStored ==
  \E l \in Learners :
    /\ intake[l].pc = "returned"
    /\ learner_profiles[l].knowledge_level = KLInt(0)
    /\ learning_resources[ResourceId(l, 1)].difficulty_level = 0
    /\ learning_resources[ResourceId(l, SkeletonSize)].difficulty_level = 2


\* C39: _get_quick_topics and _get_fallback_topics return the same topic
\* sequence for every subject and every list of weak areas.
SameTopicSequence ==
  topic_calls.pc = "returned" => topic_calls.quick = topic_calls.fallback

\* both functions returned, for geometry with the weak areas 'Circle' and
\* 'angles', the list that starts with 'Circle Geometry'
BothPrioritizeCircle ==
  /\ topic_calls.pc = "returned"
  /\ topic_calls.subject = "Geometry"
  /\ topic_calls.weak_areas = <<"Circle", "angles">>
  /\ topic_calls.quick = <<"Circle Geometry", "Angles and Triangles",
                           "Basic Shapes and Properties", "Area and Perimeter",
                           "3D Shapes and Volume">>
  /\ topic_calls.fallback = topic_calls.quick

\* C40: the intake persists the profile, then all 5 placeholders, then the
\* path, and starts the background task only after the path is persisted:
\* a stored resource has its profile stored, a stored path has its 5
\* placeholders stored, and a started task has its path stored; so the task
\* reads the resource ids of its path and never ends through the 'path not
\* found' exit.
TaskFindsItsPath ==
  \A l \in Learners :
    /\ (\E i \in 1..SkeletonSize : ResourceId(l, i) \in DOMAIN learning_resources)
         => l \in DOMAIN learner_profiles
    /\ PathId(l) \in DOMAIN learning_paths =>
         /\ learning_paths[PathId(l)].resources
              = [i \in 1..SkeletonSize |-> ResourceId(l, i)]
         /\ \A i \in 1..SkeletonSize : ResourceId(l, i) \in DOMAIN learning_resources
    /\ task[l].pc # "none" => PathId(l) \in DOMAIN learning_paths
    /\ task[l].pc \in {"loop", "calling", "done"} =>
         task[l].resources = learning_paths[PathId(l)].resources

\* a task has read the five resource ids of its path and works on the
\* first, while the other intake has stored its placeholders and not yet
\* its path, its task not started
TaskReadItsPath ==
  \E k, l \in Learners :
    /\ task[l].pc = "calling" /\ task[l].idx = 1
    /\ Len(task[l].resources) = SkeletonSize
    /\ intake[k].pc = "profile_saved"
    /\ Len(intake[k].resource_ids) = SkeletonSize
    /\ PathId(k) \notin DOMAIN learning_paths
    /\ task[k].pc = "none"

====
